---- MODULE Spec2Model ----
(***************************************************************************)
(* A model of the lazy sequence library jsouthworth.net/go/seq.            *)
(*                                                                         *)
(* Every Sequence value of the program is a node of `heap`, named by its   *)
(* index; Nil (0) is the nil Sequence and also the nil interface{} value.  *)
(* Immutable nodes (sliceSeq, rangeSeq, repeatSeq, cycle) are interned:    *)
(* the program never compares their pointers, so two allocations with the  *)
(* same fields are one node here.  Mutable nodes (xfrmSeq, lazySeq,        *)
(* iterate) and the cons cells of a buffer are allocated afresh.           *)
(*                                                                         *)
(* An operator that models a Go function takes the world                   *)
(* w = [heap, xfs, rlog] and returns [w |-> the world after the call,      *)
(* r |-> the value returned].                                              *)
(***************************************************************************)
EXTENDS Integers, Sequences, FiniteSets, TLC

\* ------------------------------------------------------------------ bounds
MaxLen == 3      \* longest source slice; its elements are 1..MaxLen
MaxDepth == 3    \* deepest nesting of LazySeq thunks
MaxPipe == 1     \* longest source, and most thunks, of a pipeline callers contend for
ScriptLen == 2   \* longest source of a scripted step function
MaxTake == 3     \* largest n of Take(n, ..)
IntBits == 4     \* width of the machine integer of rangeSeq (Go: 64)
MaxKnown == 3    \* most nodes a caller that compares results holds
MaxWalk == 4     \* most elements a caller reads off a range
MaxCalls == 2    \* the applications of an iterate function are counted up to this
NumCallers == 2  \* callers (goroutines) that run concurrently

\* ------------------------------------------------------------------ values
Nil == 0         \* the nil Sequence, and nil as an element
inf == -1        \* repeat.go: const inf = -1
NoFn == -1       \* lazySeq.fn == nil (producer dropped)
Panic == -1000   \* a call ended in a run-time panic (nil dereference); no element

Vals == 1..MaxLen

Pow2(n) == 2 ^ n

\* Go's int arithmetic: two's complement, wrapping at IntBits bits
Wrap(x) == ((x + Pow2(IntBits - 1)) % Pow2(IntBits)) - Pow2(IntBits - 1)

MinInt == 0 - Pow2(IntBits - 1)
MaxInt == Pow2(IntBits - 1) - 1

\* a caller supplied function applied to one argument (apply(f, x))
apply(fn, x) ==
  CASE fn = "succ" -> x + 1
    [] fn = "same" -> x
    [] fn = "double" -> x + x

\* ------------------------------------------------------------------ heap
New(w, rec) ==
  [w |-> [w EXCEPT !.heap = Append(@, rec)], r |-> Len(w.heap) + 1]

Intern(w, rec) ==
  LET same == {i \in 1..Len(w.heap) : w.heap[i].kind = rec.kind /\ w.heap[i] = rec}
  IN IF same # {} THEN [w |-> w, r |-> CHOOSE i \in same : TRUE]
     ELSE New(w, rec)

\* reflect.go: sliceSequence
sliceSequence(w, v) ==
  IF Len(v) = 0 THEN [w |-> w, r |-> Nil]
  ELSE Intern(w, [kind |-> "slice", v |-> v])

\* the rune a byte sequence that is no UTF-8 decodes to
RuneError == 65533

\* a string read as its bytes, one element each
Bytes(bs) == bs

\* reflect.go line 33: []rune(s) of the string with the bytes bs; the strings
\* here hold one- and two-byte encodings only
RECURSIVE Runes(_)
Runes(bs) ==
  IF bs = <<>> THEN <<>>
  ELSE IF bs[1] < 128 THEN <<bs[1]>> \o Runes(Tail(bs))
  ELSE IF bs[1] \in 194..223 /\ Len(bs) >= 2 /\ bs[2] \in 128..191
  THEN <<(bs[1] % 32) * 64 + (bs[2] % 64)>> \o Runes(SubSeq(bs, 3, Len(bs)))
  ELSE <<RuneError>> \o Runes(Tail(bs))

\* reflect.go: mapSequence, keys what v.MapKeys() returned
mapSequence(w, m, keys) ==
  IF Len(m) = 0 THEN [w |-> w, r |-> Nil]
  ELSE Intern(w, [kind |-> "map", keys |-> keys, m |-> m])

\* reflectSeq with arrays taken for slices
reflectSeqArrays(w, val, keys) ==
  CASE val.rkind \in {"slice", "array"} -> sliceSequence(w, val.v)
    [] val.rkind = "string" -> sliceSequence(w, Runes(val.v))
    [] val.rkind = "map" -> mapSequence(w, val.v, keys)
    [] OTHER -> [w |-> w, r |-> Panic,
                 err |-> <<"cannot convert ", val.type, " to Seq">>]

\* reflect.go: reflectSeq of the value val = [type, rkind, v]: its Go type,
\* the Kind of its reflect.Value, and its contents
reflectSeq(w, val, keys) ==
  CASE val.rkind = "slice" -> sliceSequence(w, val.v)
    [] val.rkind = "string" -> sliceSequence(w, Runes(val.v))
    [] val.rkind = "map" -> mapSequence(w, val.v, keys)
    [] OTHER -> [w |-> w, r |-> Panic,
                 err |-> <<"cannot convert ", val.type, " to Seq">>]

\* range.go lines 17-21 with the comparison left out: a zero step is empty
rangeNewZeroEmpty(w, start, end, step) ==
  IF \/ step > 0 /\ start >= end
     \/ step < 0 /\ start <= end
     \/ step = 0
  THEN [w |-> w, r |-> Nil]
  ELSE Intern(w, [kind |-> "range", start |-> start, end |-> end, step |-> step])

\* range.go: rangeNew
rangeNew(w, start, end, step) ==
  IF \/ step > 0 /\ start >= end
     \/ step < 0 /\ start <= end
     \/ step = 0 /\ start = end
  THEN [w |-> w, r |-> Nil]
  ELSE Intern(w, [kind |-> "range", start |-> start, end |-> end, step |-> step])

\* repeat.go: repeatSeqNew
repeatSeqNew(w, count, val) ==
  Intern(w, [kind |-> "repeat", count |-> count, val |-> val])

\* iterate.go: iterateNew
iterateNew(w, fn, x) ==
  New(w, [kind |-> "iterate", fn |-> fn, cur |-> x, prev |-> Nil,
          realized |-> TRUE, next |-> Nil, calls |-> 0])

\* cycle.go: cycleSeq
cycleSeq(w, all) ==
  Intern(w, [kind |-> "cycle", all |-> all, seq |-> all])

\* cons.go: Cons
Cons(w, v, coll) ==
  New(w, [kind |-> "cons", first |-> v, next |-> coll])

\* lazy_seq.go: LazySeq; the producer is named by the node it returns
LazySeq(w, ret) ==
  New(w, [kind |-> "lazy", fn |-> ret, seq |-> Nil, calls |-> 0])

\* seq.go: Interleave(colls...), a lazySeq whose producer is the closure over
\* colls (fn = Nil: not run yet)
Interleave(w, colls) ==
  New(w, [kind |-> "interleave", colls |-> colls, fn |-> Nil, seq |-> Nil,
          calls |-> 0])

\* ------------------------------------------------- transducers (transduce)
(***************************************************************************)
(* The transform library is an external collaborator.  A step function     *)
(* instance is a record x = [kind, p, st, buffer, stepLog, emitLog,        *)
(* completes, ops]: kind and parameter p, its private state st, the buffer *)
(* object its terminal reducing function appends to (XfrmSequence), and    *)
(* four history fields: the inputs Step was called with, the values handed *)
(* to the terminal reducing function, the number of Result calls, and the  *)
(* order of the Step and Result calls.                                     *)
(* StepOut and ResultOut give the values a call hands downstream, in       *)
(* order, each with the flag "the result it was handed with was reduced",  *)
(* and whether the call returns a reduced result.                          *)
(***************************************************************************)
Emit(vs) == [i \in 1..Len(vs) |-> [v |-> vs[i], red |-> FALSE]]

IdRange(from, n) == [i \in 1..n |-> from + i - 1]

NoStep == [n |-> 0, red |-> FALSE]

\* transduce.Take(n).Step
TakeStep(w, x, in) ==
  LET n == x.st
  IN [w |-> w, x |-> [x EXCEPT !.st = n - 1],
      out |-> IF n > 0 THEN Emit(<<in>>) ELSE <<>>,
      reduced |-> n - 1 <= 0]

\* transduce.Filter(pred).Step; pred is the set of values it holds for
FilterStep(w, x, in) ==
  [w |-> w, x |-> x,
   out |-> IF in \in x.p THEN Emit(<<in>>) ELSE <<>>,
   reduced |-> FALSE]

\* transduce.Compose(Filter(pred), Mapcat(Reduce, f)).Step
FilterMapcatStep(w, x, in) ==
  [w |-> w, x |-> x,
   out |-> IF in \in x.p.keep THEN Emit(x.p.f[in]) ELSE <<>>,
   reduced |-> FALSE]

\* Map(Seq) applied to a finished partition: s = [w, r] is Seq(part), st the
\* state the partitioner goes on with
Partition(s, x, st) ==
  [w |-> s.w, x |-> [x EXCEPT !.st = st], out |-> Emit(<<s.r>>), reduced |-> FALSE]

\* transduce.Compose(PartitionBy(f), Map(Seq)).Step
PartitionByStep(w, x, in) ==
  IF x.st.part = <<>> \/ x.p[in] = x.st.last
  THEN [w |-> w, x |-> [x EXCEPT !.st = [part |-> Append(@.part, in), last |-> x.p[in]]],
        out |-> <<>>, reduced |-> FALSE]
  ELSE Partition(sliceSequence(w, x.st.part), x, [part |-> <<in>>, last |-> x.p[in]])

\* transduce.Compose(PartitionAll(n), Map(Seq)).Step
PartitionAllStep(w, x, in) ==
  IF Len(x.st.part) + 1 = x.p
  THEN Partition(sliceSequence(w, Append(x.st.part, in)), x, [part |-> <<>>])
  ELSE [w |-> w, x |-> [x EXCEPT !.st = [part |-> Append(x.st.part, in)]],
        out |-> <<>>, reduced |-> FALSE]

\* an arbitrary step function: the k-th Step call emits p.steps[k].n fresh
\* values and returns reduced iff p.steps[k].red
ScriptStep(w, x, in) ==
  LET k == x.st.pos + 1
      e == IF k <= Len(x.p.steps) THEN x.p.steps[k] ELSE NoStep
  IN [w |-> w, x |-> [x EXCEPT !.st = [pos |-> k, next |-> @.next + e.n]],
      out |-> Emit(IdRange(x.st.next, e.n)), reduced |-> e.red]

\* the Step of the transducer a failing step function is made of
InnerStep(w, x, in) ==
  CASE x.kind = "take" -> TakeStep(w, x, in)
    [] x.kind = "partitionAll" -> PartitionAllStep(w, x, in)
    [] x.kind = "filtermapcat" -> FilterMapcatStep(w, x, in)

\* a call ended in a panic
Panics(o) == "panic" \in DOMAIN o /\ o.panic

\* a step function that panics in its p.failAt-th Step call, built from the
\* transducer p.of: before the transducer saw the input (p.cut = "before":
\* a function composed in front of it panics), or after the transducer
\* updated its state and handed all but the last of the call's values
\* downstream (a function it calls for the last value panics)
FaultyStep(w, x, in) ==
  LET Back(o, panic, out) ==
        [w |-> o.w, x |-> [o.x EXCEPT !.kind = "faulty", !.p = x.p],
         out |-> out, reduced |-> o.reduced, panic |-> panic]
      Ok(o) == Back(o, FALSE, o.out)
      Fail(o) == Back(o, TRUE, SubSeq(o.out, 1, Len(o.out) - 1))
      Inner == [x EXCEPT !.kind = x.p.of.kind, !.p = x.p.of.p]
  IN IF Len(x.stepLog) # x.p.failAt THEN Ok(InnerStep(w, Inner, in))
     ELSE IF x.p.cut = "before"
     THEN [w |-> w, x |-> x, out |-> <<>>, reduced |-> FALSE, panic |-> TRUE]
     ELSE Fail(InnerStep(w, Inner, in))

\* ReducerFn.Step of the instance x
StepOut(w, x, in) ==
  CASE x.kind = "take" -> TakeStep(w, x, in)
    [] x.kind = "filter" -> FilterStep(w, x, in)
    [] x.kind = "filtermapcat" -> FilterMapcatStep(w, x, in)
    [] x.kind = "partitionBy" -> PartitionByStep(w, x, in)
    [] x.kind = "partitionAll" -> PartitionAllStep(w, x, in)
    [] x.kind = "script" -> ScriptStep(w, x, in)
    [] x.kind = "faulty" -> FaultyStep(w, x, in)

\* ReducerFn.Result of the instance x: the partitioners flush their pending
\* partition, a script emits p.fin fresh values, the others emit nothing
ResultOut(w, x) ==
  CASE \/ x.kind \in {"partitionBy", "partitionAll"}
       \/ (x.kind = "faulty" /\ x.p.of.kind = "partitionAll") ->
         IF x.st.part = <<>> THEN [w |-> w, x |-> x, out |-> <<>>, reduced |-> FALSE]
         ELSE Partition(sliceSequence(w, x.st.part), x, [x.st EXCEPT !.part = <<>>])
    [] x.kind = "script" ->
         [w |-> w, x |-> [x EXCEPT !.st.next = @ + x.p.fin],
          out |-> Emit(IdRange(x.st.next, x.p.fin)), reduced |-> FALSE]
    [] OTHER -> [w |-> w, x |-> x, out |-> <<>>, reduced |-> FALSE]

OutVals(out) == [i \in 1..Len(out) |-> out[i].v]

\* the state a transducer starts in
InitSt(kind, p) ==
  CASE kind = "take" -> p
    [] kind = "faulty" /\ p.of.kind = "take" -> p.of.p
    [] kind = "faulty" /\ p.of.kind = "partitionAll" -> [part |-> <<>>]
    [] kind = "partitionBy" -> [part |-> <<>>, last |-> Nil]
    [] kind = "partitionAll" -> [part |-> <<>>]
    [] kind = "script" -> [pos |-> 0, next |-> 1]
    [] OTHER -> Nil

\* xf(transduce.Completing(rf)): a new step function instance
NewXf(w, xf) ==
  [w |-> [w EXCEPT !.xfs = Append(@, [kind |-> xf.kind, p |-> xf.p,
                                       st |-> InitSt(xf.kind, xf.p),
                                       buffer |-> <<>>, stepLog |-> <<>>,
                                       emitLog |-> <<>>, completes |-> 0,
                                       ops |-> <<>>])],
   r |-> Len(w.xfs) + 1]

\* ------------------------------------------------------------ xfrm_seq.go
\* buffer.add, called by the terminal reducing function of XfrmSequence:
\* if !transduce.IsReduced(result) { buffer.add(input) }
RECURSIVE bufferAdd(_, _)
bufferAdd(buffer, out) ==
  IF out = <<>> THEN buffer
  ELSE bufferAdd(IF Head(out).red THEN buffer ELSE Append(buffer, Head(out).v),
                 Tail(out))

\* a Step call of the scripted instance x has returned reduced
Signalled(x) ==
  x.kind = "script"
  /\ \E k \in 1..x.st.pos : k <= Len(x.p.steps) /\ x.p.steps[k].red

\* the instance after a call, with a terminal reducing function that drops
\* what completion emits once a Step call has returned reduced
CalledUnlessSignalled(o, id, op, buffered) ==
  [o.w EXCEPT !.xfs[id] =
     [o.x EXCEPT !.buffer = IF buffered /\ ~(op = "result" /\ Signalled(o.x))
                            THEN bufferAdd(@, o.out) ELSE @,
                 !.emitLog = @ \o OutVals(o.out),
                 !.completes = IF op = "result" THEN @ + 1 ELSE @,
                 !.ops = Append(@, op)]]

\* the instance id after a call (op: "step" or "result") that ended as
\* o = [w, x, out, reduced]; buffered: its terminal reducing function is the
\* one of XfrmSequence
Called(o, id, op, buffered) ==
  [o.w EXCEPT !.xfs[id] =
     [o.x EXCEPT !.buffer = IF buffered THEN bufferAdd(@, o.out) ELSE @,
                 !.emitLog = @ \o OutVals(o.out),
                 !.completes = IF op = "result" THEN @ + 1 ELSE @,
                 !.ops = Append(@, op)]]

\* the instance id told that its Step was called with in
StepIn(w, id, in) == [w EXCEPT !.xfs[id].stepLog = Append(@, in)]

\* s.step.Step(nil, in) of an XfrmSequence chain
StepBuffered(w, id, in) ==
  LET Ret(o) == [w |-> Called(o, id, "step", TRUE), r |-> o.reduced,
                 panic |-> Panics(o)]
  IN Ret(StepOut(StepIn(w, id, in), StepIn(w, id, in).xfs[id], in))

\* s.step.Result(nil) of an XfrmSequence chain
ResultBuffered(w, id) == Called(ResultOut(w, w.xfs[id]), id, "result", TRUE)

\* &xfrmSeq{step, coll, buffer}
xfrmNode(step, coll) ==
  [kind |-> "xfrm", step |-> step, coll |-> coll, buffer |-> TRUE,
   bufferedColl |-> Nil, completed |-> FALSE, runs |-> 0]

\* XfrmSequence(xf, coll)
XfrmSequence(w, xf, coll) ==
  IF coll = Nil THEN [w |-> w, r |-> Nil]
  ELSE LET Node(f) == New(f.w, xfrmNode(f.r, coll)) IN Node(NewXf(w, xf))

\* the cons cells buffer.add linked, ending in tl
RECURSIVE ConsChain(_, _, _)
ConsChain(w, vs, tl) ==
  IF vs = <<>> THEN [w |-> w, r |-> tl]
  ELSE LET Link(rest) == Cons(rest.w, Head(vs), rest.r)
       IN Link(ConsChain(w, Tail(vs), tl))

\* line 68 without its test of the reduced flag
AttachAlways(coll, reduced) == coll # Nil

\* line 68: a child node takes over the rest of the source
AttachChild(coll, reduced) == coll # Nil /\ ~reduced

\* lines 67-78 and 86-90: hand the buffer over as this node's elements, with
\* a child node (child # Nil: the rest of the source) linked after the tail
Handoff(w, n, child) ==
  LET Set(ch) == [ch.w EXCEPT !.heap[n].bufferedColl = ch.r,
                              !.heap[n].buffer = FALSE,
                              !.xfs[w.heap[n].step].buffer = <<>>]
      Chain(c) == Set(ConsChain(c.w, w.xfs[w.heap[n].step].buffer, c.r))
  IN Chain(IF child # Nil THEN New(w, xfrmNode(w.heap[n].step, child))
           ELSE [w |-> w, r |-> Nil])

\* line 45 without its second disjunct: a completed node counts as unrealized
RealizedUnlessCompleted(s) == s.bufferedColl # Nil

\* line 45: the node has been realized
Realized(s) == s.bufferedColl # Nil \/ s.completed

\* line 86: values buffered by Result are handed over
FlushAfterResult(s, buffer) == s.buffer /\ buffer # <<>>

\* ------------------------------------------------------- the Sequence protocol
(***************************************************************************)
(* The functions below call each other through the one recursive operator  *)
(* Call(w, op, n, c): Seq, First and Next of seq.go applied to n, the      *)
(* methods First and Next of node n, the loop of xfrmSeq.Seq at source  *)
(* position c, lazySeq.Seq and its unwrapping loop.                     *)
(***************************************************************************)
RECURSIVE Call(_, _, _, _)

SeqOf(w, coll) == Call(w, "Seq", coll, Nil)

FirstOf(w, coll) == Call(w, "First", coll, Nil)

NextOf(w, coll) == Call(w, "Next", coll, Nil)

\* seq.go: Seq(coll), for a coll that is nil or a Sequence
SeqImpl(w, coll) ==
  IF coll = Nil THEN [w |-> w, r |-> Nil]
  ELSE CASE w.heap[coll].kind = "xfrm" -> Call(w, "xfrmSeq", coll, Nil)
         [] w.heap[coll].kind \in {"lazy", "interleave"} ->
              Call(w, "lazySeq", coll, Nil)
         [] OTHER -> [w |-> w, r |-> coll]

\* First without its test for nil: the method call on a nil Sequence panics
FirstUnguarded(w, coll) ==
  LET Then(s) == IF s.r = Panic THEN s
                 ELSE IF s.r = Nil THEN [w |-> s.w, r |-> Panic]
                 ELSE Call(s.w, "MFirst", s.r, Nil)
  IN Then(SeqOf(w, coll))

\* seq.go: First(coll)
FirstImpl(w, coll) ==
  LET Then(s) == IF s.r \in {Nil, Panic} THEN s ELSE Call(s.w, "MFirst", s.r, Nil)
  IN Then(SeqOf(w, coll))

\* seq.go: Next(coll)
NextImpl(w, coll) ==
  LET Then(s) == IF s.r \in {Nil, Panic} THEN s ELSE Call(s.w, "MNext", s.r, Nil)
  IN Then(SeqOf(w, coll))

\* xfrm_seq.go lines 96-99: what xfrmSeq.Seq returns after its loop
SeqResult(s, n) == IF s.completed /\ s.bufferedColl = Nil THEN Nil ELSE n

\* xfrm_seq.go: xfrmSeq.Seq; a panic of the loop leaves through the deferred
\* Unlock and reaches the caller
xfrmSeqSeq(w, n) ==
  IF Realized(w.heap[n]) THEN [w |-> w, r |-> n]
  ELSE LET Ret(q) == [w |-> q.w,
                      r |-> IF q.r = Panic THEN Panic
                            ELSE SeqResult(q.w.heap[n], n)]
       IN Ret(Call([w EXCEPT !.heap[n].runs = @ + 1], "loop", n, w.heap[n].coll))

\* xfrm_seq.go lines 84-93: the source is exhausted, w2 the world after Result
XfrmFlush(w2, n) ==
  [(IF FlushAfterResult(w2.heap[n], w2.xfs[w2.heap[n].step].buffer)
    THEN Handoff(w2, n, Nil) ELSE w2)
   EXCEPT !.heap[n].completed = TRUE]

\* xfrm_seq.go lines 79-93, after the step at lines 65-78 returned reduced
\* and left the world w1: complete, or go on at source position coll
XfrmEnd(w1, n, coll, reduced) ==
  IF reduced
  THEN [w |-> [ResultBuffered(w1, w1.heap[n].step) EXCEPT !.heap[n].completed = TRUE],
        r |-> Nil]
  ELSE IF coll = Nil
  THEN [w |-> XfrmFlush(ResultBuffered(w1, w1.heap[n].step), n), r |-> Nil]
  ELSE Call(w1, "loop", n, coll)

\* xfrm_seq.go lines 67-78, after Step returned reduced and Next returned
\* nx = [w, r]
XfrmBuffered(nx, n, reduced) ==
  XfrmEnd(IF nx.w.xfs[nx.w.heap[n].step].buffer # <<>>
          THEN Handoff(nx.w, n, IF AttachChild(nx.r, reduced) THEN nx.r ELSE Nil)
          ELSE nx.w,
          n, nx.r, reduced)

\* xfrm_seq.go lines 65-66, after First returned f = [w, r]
XfrmStep(f, n, coll) ==
  LET Then(st) == IF st.panic THEN [w |-> st.w, r |-> Panic]
                  ELSE XfrmBuffered(NextOf(st.w, coll), n, st.r)
  IN Then(StepBuffered(f.w, f.w.heap[n].step, f.r))

\* a loop that goes on until the source ends
LoopUntilCompleted(s) == s.completed

\* xfrm_seq.go line 64: for s.bufferedColl == nil
LoopDone(s) == s.bufferedColl # Nil

\* xfrm_seq.go lines 64-95: the loop of xfrmSeq.Seq, at source position coll
XfrmLoop(w, n, coll) ==
  IF LoopDone(w.heap[n]) THEN [w |-> w, r |-> Nil]
  ELSE XfrmStep(FirstOf(w, coll), n, coll)

\* seq.go lines 723-728: colls[i] = Seq(coll) for each coll in turn, until
\* one is nil; r the converted ones, none: one was nil
RECURSIVE SeqAll(_, _, _)
SeqAll(w, colls, seqs) ==
  IF colls = <<>> THEN [w |-> w, r |-> seqs, none |-> FALSE]
  ELSE LET Then(s) == IF s.r = Nil THEN [w |-> s.w, r |-> seqs, none |-> TRUE]
                      ELSE SeqAll(s.w, Tail(colls), Append(seqs, s.r))
       IN Then(SeqOf(w, Head(colls)))

\* seq.go lines 729-736: rests[i] = Next(coll) for each coll in turn
RECURSIVE NextAll(_, _, _)
NextAll(w, colls, rests) ==
  IF colls = <<>> THEN [w |-> w, r |-> rests]
  ELSE LET Then(nx) == NextAll(nx.w, Tail(colls), Append(rests, nx.r))
       IN Then(NextOf(w, Head(colls)))

\* seq.go lines 741-743: out = Cons(First(colls[i]), out), from the last coll
\* to the first
RECURSIVE ConsAll(_, _, _)
ConsAll(w, colls, out) ==
  IF colls = <<>> THEN [w |-> w, r |-> out]
  ELSE LET Then(c) == ConsAll(c.w, SubSeq(colls, 1, Len(colls) - 1), c.r)
           Link(f) == Then(Cons(f.w, f.r, out))
       IN Link(FirstOf(w, colls[Len(colls)]))

\* seq.go lines 737-740: out = Interleave(rests...), nil if one rest is nil
InterleaveRests(rs, seqs) ==
  LET Out(o) == ConsAll(o.w, seqs,
                        IF \E i \in DOMAIN rs.r : rs.r[i] = Nil THEN Nil ELSE o.r)
  IN Out(Interleave(rs.w, rs.r))

\* seq.go lines 722-745: the producer of Interleave(colls...)
interleaveFn(w, n) ==
  LET Rests(ss) == InterleaveRests(NextAll(ss.w, ss.r, <<>>), ss.r)
      Then(ss) == IF ss.none THEN [w |-> ss.w, r |-> Nil] ELSE Rests(ss)
  IN Then(SeqAll(w, w.heap[n].colls, <<>>))

\* lazy_seq.go line 21: s.seq = s.fn(), the producer of node n called
RunFn(w, n) ==
  LET Set(q) == [q.w EXCEPT !.heap[n].seq = q.r, !.heap[n].calls = @ + 1]
  IN Set(IF w.heap[n].kind = "interleave" THEN Call(w, "interleave", n, Nil)
         ELSE [w |-> w, r |-> w.heap[n].fn])

\* lazy_seq.go line 22: s.fn = nil
ClearFn(w, n) == [w EXCEPT !.heap[n].fn = NoFn]

\* lazy_seq.go lines 20-23: run the producer once
Force(w, n) ==
  IF w.heap[n].fn = NoFn THEN w ELSE ClearFn(RunFn(w, n), n)

\* lazy_seq.go: lazySeq.Seq
lazySeqSeq(w, n) ==
  LET Ret(u) == [w |-> [u.w EXCEPT !.heap[n].seq = u.r], r |-> u.r]
      Run(f) == Ret(Call(f, "unwrap", f.heap[n].seq, Nil))
  IN Run(Force(w, n))

\* the producer's result taken as it is
LazyAsReturned(w, ls) == [w |-> w, r |-> ls]

\* lazy_seq.go lines 25-30: follow nested thunks
LazyUnwrap(w, ls) ==
  IF ls # Nil /\ w.heap[ls].kind \in {"lazy", "interleave"}
  THEN LET Then(t) == Call(t.w, "unwrap", t.r, Nil)
       IN Then(Call(w, "lazySeq", ls, Nil))
  ELSE [w |-> w, r |-> ls]

\* iterate.go lines 29-34 without the application of fn: the stored value
iterateFirstStored(w, n) == [w |-> w, r |-> w.heap[n].cur]

\* iterate.go: iterate.first
iterateFirst(w, n) ==
  IF ~w.heap[n].realized
  THEN [w |-> [w EXCEPT !.heap[n].cur = apply(w.heap[n].fn, w.heap[n].prev),
                        !.heap[n].calls = IF @ < MaxCalls THEN @ + 1 ELSE @],
        r |-> apply(w.heap[n].fn, w.heap[n].prev)]
  ELSE [w |-> w, r |-> w.heap[n].cur]

\* iterate.go: iterate.Next
iterateNext(w, n) ==
  IF w.heap[n].next # Nil THEN [w |-> w, r |-> w.heap[n].next]
  ELSE LET Link(c) == [w |-> [c.w EXCEPT !.heap[n].next = c.r], r |-> c.r]
           Alloc(f) == Link(New(f.w, [kind |-> "iterate", fn |-> w.heap[n].fn,
                                      cur |-> Nil, prev |-> f.r,
                                      realized |-> FALSE, next |-> Nil,
                                      calls |-> 0]))
       IN Alloc(iterateFirst(w, n))

\* range.go: rangeSeq.Next
rangeNext(w, s) == rangeNew(w, Wrap(s.start + s.step), s.end, s.step)

\* repeat.go: repeatSeq.Next
repeatNext(w, n) ==
  LET s == w.heap[n]
  IN CASE s.count > 1 -> repeatSeqNew(w, s.count - 1, s.val)
       [] s.count = inf -> [w |-> w, r |-> n]
       [] OTHER -> [w |-> w, r |-> Nil]

\* reflect.go: sliceSeq.Next
sliceNext(w, s) ==
  IF Len(s.v) <= 1 THEN [w |-> w, r |-> Nil]
  ELSE Intern(w, [kind |-> "slice", v |-> Tail(s.v)])

\* cycle.go: cycle.Next
cycleNext(w, c) ==
  LET Ret(nxt) == Intern(nxt.w, [kind |-> "cycle", all |-> c.all,
                                 seq |-> IF nxt.r = Nil THEN c.all ELSE nxt.r])
      Then(nx) == Ret(SeqOf(nx.w, nx.r))
  IN Then(NextOf(w, c.seq))

\* lazy_seq.go: lazySeq.First and lazySeq.Next, op the function they end in
lazyThen(w, n, op) ==
  LET Then(q) == IF q.r = Nil THEN q ELSE Call(q.w, op, q.r, Nil)
  IN Then(Call(w, "lazySeq", n, Nil))

\* xfrm_seq.go: xfrmSeq.First and xfrmSeq.Next, op the function they end in
xfrmThen(w, n, op) ==
  LET Then(q) == IF q.r = Panic THEN q
                 ELSE Call(q.w, op, q.w.heap[n].bufferedColl, Nil)
  IN Then(Call(w, "xfrmSeq", n, Nil))

\* the First method of node n (n # Nil)
MFirst(w, n) ==
  LET s == w.heap[n]
  IN CASE s.kind = "slice" -> [w |-> w, r |-> s.v[1]]
       [] s.kind = "cons" -> [w |-> w, r |-> s.first]
       [] s.kind = "range" -> [w |-> w, r |-> s.start]
       [] s.kind = "repeat" -> [w |-> w, r |-> s.val]
       [] s.kind = "iterate" -> iterateFirst(w, n)
       [] s.kind = "cycle" -> IF s.seq = Nil THEN [w |-> w, r |-> Panic]
                              ELSE Call(w, "MFirst", s.seq, Nil)
       [] s.kind \in {"lazy", "interleave"} -> lazyThen(w, n, "First")
       [] s.kind = "xfrm" -> xfrmThen(w, n, "First")

\* the Next method of node n (n # Nil)
MNext(w, n) ==
  LET s == w.heap[n]
  IN CASE s.kind = "slice" -> sliceNext(w, s)
       [] s.kind = "cons" -> [w |-> w, r |-> s.next]
       [] s.kind = "range" -> rangeNext(w, s)
       [] s.kind = "repeat" -> repeatNext(w, n)
       [] s.kind = "iterate" -> iterateNext(w, n)
       [] s.kind = "cycle" -> cycleNext(w, s)
       [] s.kind \in {"lazy", "interleave"} -> lazyThen(w, n, "Next")
       [] s.kind = "xfrm" -> xfrmThen(w, n, "Next")

Call(w, op, n, c) ==
  CASE op = "Seq" -> SeqImpl(w, n)
    [] op = "First" -> FirstImpl(w, n)
    [] op = "Next" -> NextImpl(w, n)
    [] op = "MFirst" -> MFirst(w, n)
    [] op = "MNext" -> MNext(w, n)
    [] op = "xfrmSeq" -> xfrmSeqSeq(w, n)
    [] op = "loop" -> XfrmLoop(w, n, c)
    [] op = "lazySeq" -> lazySeqSeq(w, n)
    [] op = "unwrap" -> LazyUnwrap(w, n)
    [] op = "interleave" -> interleaveFn(w, n)

\* seq.go: Seq(coll) for any coll: nil, a Sequence, or another Go value
SeqValue(w, coll, keys) ==
  IF coll = Nil THEN [w |-> w, r |-> Nil]
  ELSE IF w.heap[coll].kind = "value" THEN reflectSeq(w, w.heap[coll], keys)
  ELSE SeqOf(w, coll)

\* ------------------------------------------------------ Reduce and Transduce
\* the first k elements of coll, as the traversal loop of Reduce, DoRun and
\* seqString reads them (First, then Seq(Next)), without keeping the world
RECURSIVE Elems(_, _, _)
Elems(w, coll, k) ==
  LET Rest(f, s) ==
        LET More(nx) == <<f.r>> \o Elems(nx.w, nx.r, k - 1)
        IN More(NextOf(f.w, s))
      Read(f, s) == IF f.r = Panic THEN <<Panic>> ELSE Rest(f, s)
      Walk(s) == IF s.r = Nil THEN <<>> ELSE Read(FirstOf(s.w, s.r), s.r)
  IN IF k = 0 THEN <<>> ELSE Walk(SeqOf(w, coll))

\* fmt's %v of an element
Sprint(v) == IF v = Nil THEN "<nil>" ELSE ToString(v)

\* seq.go lines 985-994: the loop of seqString at coll (not nil), after
\* first := First(coll) returned f
RECURSIVE seqStringLoop(_, _)
seqStringLoop(f, coll) ==
  LET More(nx) == IF nx.r = Nil THEN [w |-> nx.w, r |-> Sprint(f.r)]
                  ELSE LET Rest(q) == [w |-> q.w, r |-> Sprint(f.r) \o " " \o q.r]
                       IN Rest(seqStringLoop(FirstOf(nx.w, nx.r), nx.r))
      Conv(nx) == More(SeqOf(nx.w, nx.r))
  IN Conv(NextOf(f.w, coll))

\* seq.go: seqString(coll), what the String method of every variant returns
seqString(w, coll) ==
  LET Close(q) == [w |-> q.w, r |-> "(" \o q.r \o ")"]
      Open(s) == IF s.r = Nil THEN [w |-> s.w, r |-> "()"]
                 ELSE Close(seqStringLoop(FirstOf(s.w, s.r), s.r))
  IN Open(SeqOf(w, coll))

\* f.Step(result, in) of a Transduce instance: the terminal reducing function
\* is Completing(rf) with rf appending to the result
StepAcc(w, id, acc, in) ==
  LET Ret(o) == [w |-> Called(o, id, "step", FALSE),
                 r |-> [vals |-> acc.vals \o OutVals(o.out),
                        reduced |-> acc.reduced \/ o.reduced]]
  IN Ret(StepOut(StepIn(w, id, in), StepIn(w, id, in).xfs[id], in))

\* f.Result(result) of a Transduce instance
ResultAcc(w, id, acc) ==
  LET Ret(o) == [w |-> Called(o, id, "result", FALSE),
                 r |-> [acc EXCEPT !.vals = @ \o OutVals(o.out)]]
  IN Ret(ResultOut(w, w.xfs[id]))

\* wrapReduce(fn)(ret, in): a caller's reducing function, or the Step of a
\* step function instance; w.rlog records the calls of a caller's function
CallF(w, f, ret, in) ==
  CASE f.k = "step" -> StepAcc(w, f.id, ret, in)
    [] f.k = "fn" ->
         [w |-> [w EXCEPT !.rlog = Append(@, [acc |-> ret, in |-> in])],
          r |-> IF f.name = "append" THEN Append(ret, in) ELSE <<in>> \o ret]

\* seq.go lines 637-640: the loop of Reduce, s the converted position
RECURSIVE ReduceLoop(_, _, _, _)
ReduceLoop(w, f, ret, s) ==
  LET Go(c, q) == ReduceLoop(q.w, f, c.r, q.r)
      Conv(c, nx) == Go(c, SeqOf(nx.w, nx.r))
      Adv(c) == Conv(c, NextOf(c.w, s))
      Got(e) == Adv(CallF(e.w, f, ret, e.r))
  IN IF s = Nil THEN [w |-> w, r |-> ret] ELSE Got(FirstOf(w, s))

\* seq.go: Reduce(fn, init, coll)
Reduce(w, f, init, coll) ==
  LET Loop(s) == IF s.r = Nil THEN [w |-> s.w, r |-> init]
                 ELSE ReduceLoop(s.w, f, init, s.r)
  IN Loop(SeqOf(w, coll))

\* seq.go: Transduce(xf, rf, init, coll), rf appending to the result
Transduce(w, xf, init, coll) ==
  LET Ret(fin, id) == [w |-> fin.w, r |-> fin.r.vals, id |-> id]
      Fin(ret, id) == Ret(ResultAcc(ret.w, id, ret.r), id)
      Fold(f) == Fin(Reduce(f.w, [k |-> "step", id |-> f.r],
                            [vals |-> init, reduced |-> FALSE], coll), f.r)
  IN Fold(NewXf(w, xf))

\* ------------------------------------------------------------------ state
VARIABLES
  heap,    \* the Sequence nodes allocated so far
  xfs,     \* the step function instances built so far
  rlog,    \* the calls Reduce made of a caller's reducing function
  fam,     \* which family of programs this run belongs to
  given,   \* the source as the program text gives it
  xf,      \* the transducer of the program ([kind, p]), or NoXf
  src,     \* the source sequence
  root,    \* the sequence under test: XfrmSequence(xf, src), or src itself
  known,   \* the nodes callers hold
  cur,     \* the position of the caller that walks root with First and Next
  walked,  \* what that walk saw, or what Reduce over root returned
  eager,   \* what Transduce(xf, append, [], src) returned
  hist,    \* the results of the calls made so far, per operation and node
  revisited, \* a call was made on a transducing node that was realized before
  procs    \* where each concurrent caller is in its call

vars == <<heap, xfs, rlog, fam, given, xf, src, root, known, cur, walked, eager, hist,
          revisited, procs>>

World == [heap |-> heap, xfs |-> xfs, rlog |-> rlog]

W0 == [heap |-> <<>>, xfs |-> <<>>, rlog |-> <<>>]

NoXf == [kind |-> "none", p |-> Nil]

NotWalked == [done |-> FALSE, fn |-> "", acc |-> <<>>]

NotEager == [done |-> FALSE, vals |-> <<>>, id |-> 0]

\* the callers of a program whose calls run concurrently
Callers == 1..NumCallers

\* a caller between two calls
Idle == [pc |-> "idle", op |-> "", n |-> Nil, r |-> Nil]

\* the programs whose callers run concurrently
Concurrent(f) == f \in {"lazyConc", "xfrmConc", "locks"}

\* ----------------------------------------------------------------- programs
\* Seq([]int{1, ..., len})
SliceSrc(w, len) == sliceSequence(w, IdRange(1, len))

\* Filter(func(x int) bool { return x <= len }, []int{1, ..., len + 1}): len
\* elements, then a node that realizes to nothing
FilterSrc(w, len) ==
  LET Filtered(s) == XfrmSequence(s.w, [kind |-> "filter", p |-> 1..len], s.r)
  IN Filtered(SliceSrc(w, len + 1))

\* the source the description g stands for, as the program builds it
Source(w, g) ==
  CASE g.gen = "slice" -> SliceSrc(w, g.len)
    [] g.gen = "filter" -> FilterSrc(w, g.len)
    [] g.gen = "range" -> rangeNew(w, g.start, g.end, g.step)
    [] g.gen = "repeat" -> repeatSeqNew(w, g.len, g.x)
    [] g.gen = "forever" -> repeatSeqNew(w, inf, g.x)
    [] g.gen = "iterate" -> iterateNew(w, g.fn, g.x)
    [] g.gen = "cycle" -> LET Cycle(s) == cycleSeq(s.w, s.r)
                          IN Cycle(SliceSrc(w, g.len))
    [] g.gen = "cons" -> LET Front(s) == Cons(s.w, g.x, s.r)
                         IN Front(SliceSrc(w, g.len))
    [] g.gen = "lazy" -> LET Thunk(s) == LazySeq(s.w, s.r)
                         IN Thunk(SliceSrc(w, g.len))
    [] g.gen = "lazylazy" -> LET Outer(t) == LazySeq(t.w, t.r)
                                 Thunk(s) == Outer(LazySeq(s.w, s.r))
                             IN Thunk(SliceSrc(w, g.len))

\* the program: the source s = [w, r] is built, then XfrmSequence(x, s) (the
\* wrappers PartitionBy, PartitionAll, Take convert s with Seq first);
\* callers hold the nodes of hold
Start(f, x, g, s, r, hold) ==
  /\ fam = f
  /\ given = g
  /\ xf = x
  /\ src = s
  /\ root = r.r
  /\ heap = r.w.heap
  /\ xfs = r.w.xfs
  /\ rlog = r.w.rlog
  /\ known = ({r.r} \cup hold) \ {Nil}
  /\ cur = r.r
  /\ walked = NotWalked
  /\ eager = NotEager
  /\ hist = {}
  /\ revisited = FALSE
  /\ procs = IF Concurrent(f) THEN [p \in Callers |-> Idle] ELSE <<>>

Wrapped(x, q) == XfrmSequence(q.w, x, q.r)

Program(f, x, g, s, viaSeq, hold) ==
  Start(f, x, g, s.r,
        IF x.kind = "none" THEN s
        ELSE IF viaSeq THEN Wrapped(x, SeqOf(s.w, s.r)) ELSE Wrapped(x, s),
        hold)

\* what one call of a scripted step function does: it emits no, one or two
\* values, and returns a reduced result or not
ScriptCalls == [n : {0, 1, 2}, red : BOOLEAN]

\* the scripts of a step function called at most len times (nothing is
\* scripted after the call that returns reduced)
Scripts(len) ==
  {sc \in [1..len -> ScriptCalls] :
     \A i \in 1..len : \A j \in 1..len : (i < j /\ sc[i].red) => sc[j] = NoStep}

ScriptXfs(len) ==
  {[kind |-> "script", p |-> [steps |-> sc, fin |-> fin]] :
     sc \in Scripts(len), fin \in {0, 1, 2}}

\* a slice of len elements, and a Filter result of len elements whose last
\* node realizes to nothing
FiniteSources ==
  {[gen |-> "slice", len |-> len] : len \in 0..MaxLen}
  \cup {[gen |-> "filter", len |-> len] : len \in 0..(MaxLen - 1)}

\* XfrmSequence(script, source): the source a slice of len elements, or a
\* Filter result of len elements whose last node realizes to nothing
InitScript ==
  \E len \in 0..ScriptLen : \E tail \in BOOLEAN :
    \E x \in ScriptXfs(IF tail THEN len + 1 ELSE len) :
      Program("script", x,
              [gen |-> IF tail THEN "filter" ELSE "slice", len |-> len],
              Source(W0, [gen |-> IF tail THEN "filter" ELSE "slice", len |-> len]),
              FALSE, {})

\* the functions f of Mapcat(Reduce, f), by the elements of the sequence f
\* returns; Nil stands for the zero value a function is applied to when the
\* element is nil
MapcatFns ==
  {[v \in 0..MaxLen |-> <<v, v>>],
   [v \in 0..MaxLen |-> IF v = Nil THEN <<>> ELSE <<v>>]}

\* Compose(Filter(pred), Mapcat(Reduce, f)), PartitionBy(f) and
\* PartitionAll(n) with their Map(Seq)
Xfs ==
  {[kind |-> "filtermapcat", p |-> [keep |-> keep, f |-> f]] :
     keep \in SUBSET (0..MaxLen), f \in MapcatFns}
  \cup {[kind |-> "partitionBy", p |-> key] : key \in [0..MaxLen -> {0, 1}]}
  \cup {[kind |-> "partitionAll", p |-> n] : n \in 1..MaxLen}

\* XfrmSequence(xf, source), PartitionBy(f, source), PartitionAll(n, source)
InitXf ==
  \E g \in FiniteSources : \E x \in Xfs :
    Program("xf", x, g, Source(W0, g), x.kind # "filtermapcat", {})

\* RepeateInfinitely(1), Iterate(fn, 1), Cycle([]int{1, ..., len})
InfiniteSources ==
  {[gen |-> "forever", x |-> 1]}
  \cup {[gen |-> "iterate", fn |-> fn, x |-> 1] : fn \in {"succ", "same"}}
  \cup {[gen |-> "cycle", len |-> len] : len \in 1..MaxLen}

\* Take(n, source), source an infinite generator
InitTake ==
  \E g \in InfiniteSources : \E n \in 0..MaxTake :
    Program("take", [kind |-> "take", p |-> n], g, Source(W0, g), TRUE, {})

\* Range(start, end, step) within the elements 0..MaxLen, Repeat(len, 1),
\* Cons(x, slice), LazySeq thunks, one of them nested
OtherSources ==
  {[gen |-> "range", start |-> a, end |-> b, step |-> c] :
     a \in 0..1, b \in 0..MaxLen, c \in {1, 2}}
  \cup {[gen |-> "repeat", len |-> len, x |-> 1] : len \in 1..MaxLen}
  \cup {[gen |-> "cons", len |-> len, x |-> MaxLen] : len \in 0..(MaxLen - 1)}
  \cup {[gen |-> k, len |-> len] : k \in {"lazy", "lazylazy"}, len \in 0..MaxLen}

\* a finite sequence of any variant, for Reduce
InitReduce ==
  \E g \in FiniteSources \cup OtherSources :
    Program("reduce", NoXf, g, Source(W0, g), FALSE, {})

\* a sequence of any variant, for callers that repeat their calls
InitIdem ==
  \E g \in FiniteSources \cup OtherSources \cup InfiniteSources :
    Program("idem", NoXf, g, Source(W0, g), FALSE, {})

\* Range(start, end, step) for machine integers and a step that is not 0
InitRange ==
  \E a \in MinInt..MaxInt : \E b \in MinInt..MaxInt : \E c \in {-2, -1, 1, 2} :
    Program("range", NoXf, [gen |-> "range", start |-> a, end |-> b, step |-> c],
            Source(W0, [gen |-> "range", start |-> a, end |-> b, step |-> c]),
            FALSE, {})

\* Range(start, end, 0) for machine integers
InitRangeZero ==
  \E a \in MinInt..MaxInt : \E b \in MinInt..MaxInt :
    Program("rangeZero", NoXf, [gen |-> "range", start |-> a, end |-> b, step |-> 0],
            Source(W0, [gen |-> "range", start |-> a, end |-> b, step |-> 0]),
            FALSE, {})

\* Repeat(n, x) for a count n >= 0 and a machine integer x
InitRepeat ==
  \E n \in 0..MaxWalk : \E x \in MinInt..MaxInt :
    Program("repeat", NoXf, [gen |-> "repeat", len |-> n, x |-> x],
            Source(W0, [gen |-> "repeat", len |-> n, x |-> x]), FALSE, {})

\* Iterate(fn, x), for callers that repeat their calls
InitIterate ==
  \E fn \in {"succ", "same", "double"} : \E x \in 1..MaxLen :
    Program("idem", NoXf, [gen |-> "iterate", fn |-> fn, x |-> x],
            Source(W0, [gen |-> "iterate", fn |-> fn, x |-> x]), FALSE, {})

\* Cycle(coll): cycleSeq(Seq(coll)), coll = [w, r] as the program built it
Cycle(coll) ==
  LET Anchor(s) == cycleSeq(s.w, s.r)
  IN Anchor(SeqOf(coll.w, coll.r))

\* Cycle(s) for a finite sequence s of any variant, s empty included; callers
\* hold s as well
InitCycle ==
  \E g \in FiniteSources \cup OtherSources :
    Start("cycle", NoXf, [gen |-> "cycleOver", of |-> g], Source(W0, g).r,
          Cycle(Source(W0, g)), {Source(W0, g).r})

\* a slice, a Filter result, or Cons(x, slice)
InterleaveSources ==
  FiniteSources
  \cup {[gen |-> "cons", len |-> len, x |-> MaxLen] : len \in 0..(MaxLen - 1)}

\* the sources gs built one after the other: r the sequences
RECURSIVE Sources(_, _, _)
Sources(w, gs, seqs) ==
  IF gs = <<>> THEN [w |-> w, r |-> seqs]
  ELSE LET Then(s) == Sources(s.w, Tail(gs), Append(seqs, s.r))
       IN Then(Source(w, Head(gs)))

\* Interleave(c_0) and Interleave(c_0, c_1); callers hold the inputs as well
InitInterleave ==
  \E gs \in UNION {[1..k -> InterleaveSources] : k \in 1..2} :
    LET Built(ss) == Start("interleave", NoXf, [gen |-> "interleave", of |-> gs],
                           ss.r[1], Interleave(ss.w, ss.r),
                           {ss.r[i] : i \in DOMAIN ss.r})
    IN Built(Sources(W0, gs, <<>>))

\* ------------------------------------------------------------------ actions
SetWorld(w) == heap' = w.heap /\ xfs' = w.xfs /\ rlog' = w.rlog

Track == fam = "idem"

\* the history with one more call: a second call of op on n is marked, and
\* keeps the result of the first beside its own
Record(op, n, r) ==
  IF ~Track THEN hist
  ELSE hist \cup {[op |-> op, n |-> n, r |-> r]}

\* how many elements of a sequence a call's result is compared on
Look == MaxLen + 1

\* a call on node n finds it a transducing node realized by an earlier call
Revisit(n) == n # Nil /\ heap[n].kind = "xfrm" /\ Realized(heap[n])

\* a call returned q = [w, r], a sequence
Returned(op, n, q) ==
  /\ Track => Cardinality(known \cup ({q.r} \ {Nil})) <= MaxKnown
  /\ SetWorld(q.w)
  /\ known' = known \cup ({q.r} \ {Nil, Panic})
  /\ hist' = Record(op, n, IF Track THEN Elems(q.w, q.r, Look) ELSE <<>>)
  /\ revisited' = (revisited \/ Revisit(n))
  /\ UNCHANGED <<fam, given, xf, src, root, cur, walked, eager, procs>>

\* a caller calls Seq(n)
CallSeq(n) == Returned("Seq", n, SeqOf(World, n))

\* a caller calls First(n)
CallFirst(n) ==
  LET Ret(q) == /\ SetWorld(q.w)
                /\ hist' = Record("First", n, <<q.r>>)
  IN /\ Ret(FirstOf(World, n))
     /\ revisited' = (revisited \/ Revisit(n))
     /\ UNCHANGED <<fam, given, xf, src, root, known, cur, walked, eager, procs>>

\* a caller calls Next(n)
CallNext(n) == Returned("Next", n, NextOf(World, n))

DoSeq == \E n \in known : CallSeq(n)

DoFirst == \E n \in known : CallFirst(n)

DoNext == \E n \in known : CallNext(n)

\* a caller calls Reduce(fn, [], root); with fn appending this is Slice(root)
DoReduce ==
  /\ ~walked.done
  /\ \E fn \in IF fam = "reduce" THEN {"append", "prepend"} ELSE {"append"} :
       LET Ret(q) == /\ SetWorld(q.w)
                     /\ walked' = [done |-> TRUE, fn |-> fn, acc |-> q.r]
       IN Ret(Reduce(World, [k |-> "fn", name |-> fn], <<>>, root))
  /\ revisited' = (revisited \/ Revisit(root))
  /\ UNCHANGED <<fam, given, xf, src, root, known, cur, eager, hist, procs>>

\* a caller calls Transduce(xf, append, [], src)
DoTransduce ==
  /\ ~eager.done
  /\ xf.kind # "none"
  /\ LET Ret(q) == /\ SetWorld(q.w)
                   /\ eager' = [done |-> TRUE, vals |-> q.r, id |-> q.id]
     IN Ret(Transduce(World, xf, <<>>, src))
  /\ UNCHANGED <<fam, given, xf, src, root, known, cur, walked, hist, revisited,
                 procs>>

Next == DoSeq \/ DoFirst \/ DoNext \/ DoReduce \/ DoTransduce

SpecScript == InitScript /\ [][Next]_vars

SpecXf == InitXf /\ [][Next]_vars

\* the walk ended in a panic
Panicked == walked.acc # <<>> /\ walked.acc[Len(walked.acc)] = Panic

\* one turn of the loop of Reduce (seq.go lines 637-640) with fn appending,
\* for a caller that reads at most MaxWalk elements; a panic in First ends
\* the walk where it is
Walk ==
  /\ cur # Nil
  /\ ~Panicked
  /\ Len(walked.acc) < MaxWalk
  /\ LET Ret(e, q) == /\ SetWorld(q.w)
                       /\ cur' = q.r
                       /\ walked' = [done |-> q.r = Nil, fn |-> "append",
                                     acc |-> Append(walked.acc, e)]
         Conv(e, nx) == Ret(e, SeqOf(nx.w, nx.r))
         Adv(f) == IF f.r = Panic THEN Ret(Panic, [w |-> f.w, r |-> cur])
                   ELSE Conv(f.r, NextOf(f.w, cur))
     IN Adv(FirstOf(World, cur))
  /\ UNCHANGED <<fam, given, xf, src, root, known, eager, hist, revisited, procs>>

NextLazy == DoSeq \/ DoFirst \/ DoNext \/ DoReduce

NextCalls == DoSeq \/ DoFirst \/ DoNext

NextWalk == Walk

\* a caller prints the sequence: fmt.Sprint(root)
DoString ==
  /\ LET Ret(q) == /\ SetWorld(q.w)
                    /\ walked' = [done |-> TRUE, fn |-> "String", acc |-> q.r]
     IN Ret(seqString(World, root))
  /\ UNCHANGED <<fam, given, xf, src, root, known, cur, eager, hist, revisited,
                 procs>>

\* finite sequences of every variant whose elements are not 0
StringSources ==
  FiniteSources \cup {g \in OtherSources : g.gen = "range" => g.start = 1}

\* a finite sequence that callers print, before and after other calls
InitString ==
  \E g \in StringSources : Program("string", NoXf, g, Source(W0, g), FALSE, {})

SpecString == InitString /\ [][DoString \/ DoSeq \/ DoFirst \/ DoNext]_vars

\* the sequences over S of at most n elements
Lists(S, n) == UNION {[1..k -> S] : k \in 0..n}

\* the bytes of 'a', and of U+00E9: a lead byte and a continuation byte
StringBytes == {97, 195, 169}

\* Go values of every kind: slices, strings, maps (by their keys), arrays,
\* integers, and one value each of other kinds
GoValues ==
  {[type |-> "[]int", rkind |-> "slice", v |-> v] : v \in Lists(1..MaxLen, MaxLen)}
  \cup {[type |-> "string", rkind |-> "string", v |-> v] :
          v \in Lists(StringBytes, MaxLen)}
  \cup {[type |-> "map[int]int", rkind |-> "map", v |-> v] :
          v \in {<<>>, <<1>>, <<2>>, <<1, 2>>}}
  \cup {[type |-> "[2]int", rkind |-> "array", v |-> v] : v \in [1..2 -> 1..MaxLen]}
  \cup {[type |-> "int", rkind |-> "int", v |-> <<i>>] : i \in MinInt..MaxInt}
  \cup {[type |-> t.type, rkind |-> t.rkind, v |-> <<>>] :
          t \in {[type |-> "bool", rkind |-> "bool"],
                 [type |-> "float64", rkind |-> "float64"],
                 [type |-> "*int", rkind |-> "ptr"],
                 [type |-> "struct {}", rkind |-> "struct"],
                 [type |-> "chan int", rkind |-> "chan"],
                 [type |-> "func()", rkind |-> "func"]}}

\* the orders v.MapKeys() can return the keys of m in
KeyOrders(m) ==
  {ks \in [1..Len(m) -> {m[i] : i \in 1..Len(m)}] :
     \A i \in 1..Len(m) : \A j \in 1..Len(m) : ks[i] = ks[j] => i = j}

\* the program holds the Go value val
Holding(f, g, val) ==
  LET Held_(o) == Start(f, NoXf, g, o.r, [w |-> o.w, r |-> Nil], {})
  IN Held_(New(W0, [kind |-> "value", type |-> val.type, rkind |-> val.rkind,
                    v |-> val.v]))

\* a Go value, or nil, that Seq is about to be applied to
InitConvert ==
  \/ \E val \in GoValues :
       Holding("convert",
               [gen |-> "value", type |-> val.type, rkind |-> val.rkind, v |-> val.v],
               val)
  \/ Start("convert", NoXf, [gen |-> "value", type |-> "nil", rkind |-> "nil", v |-> <<>>],
           Nil, [w |-> W0, r |-> Nil], {})

\* a caller calls Seq(src), src a Go value
DoConvert ==
  /\ hist = {}
  /\ \E keys \in IF given.rkind = "map" THEN KeyOrders(given.v) ELSE {<<>>} :
       LET Ret(q) ==
             /\ SetWorld(q.w)
             /\ root' = IF q.r = Panic THEN root ELSE q.r
             /\ hist' = {[op |-> "Seq", n |-> src, r |-> q.r,
                          err |-> IF q.r = Panic THEN q.err ELSE <<>>]}
       IN Ret(SeqValue(World, src, keys))
  /\ UNCHANGED <<fam, given, xf, src, known, cur, walked, eager, revisited, procs>>

SpecConvert == InitConvert /\ [][DoConvert]_vars

\* the bytes of the string with the code points cps (below 2048)
RECURSIVE UTF8(_)
UTF8(cps) ==
  IF cps = <<>> THEN <<>>
  ELSE (IF cps[1] < 128 THEN <<cps[1]>>
        ELSE <<192 + (cps[1] \div 64), 128 + (cps[1] % 64)>>) \o UTF8(Tail(cps))

\* the code points of 'a' and of U+00E9
CodePoints == {97, 233}

\* s := Seq(val), val a slice or a string with the elements (code points) es
Adapted(kind, val, es) ==
  LET Conv(o) == Start("slices", NoXf,
                       [gen |-> kind, elems |-> es, len |-> Len(es)], o.r,
                       SeqValue(o.w, o.r, <<>>), {})
  IN Conv(New(W0, [kind |-> "value", type |-> val.type, rkind |-> val.rkind,
                   v |-> val.v]))

\* Seq(xs) for a slice xs, and Seq(str) for a string
InitSlices ==
  \/ \E xs \in Lists(1..MaxLen, MaxLen) :
       Adapted("goslice", [type |-> "[]int", rkind |-> "slice", v |-> xs], xs)
  \/ \E cps \in Lists(CodePoints, MaxLen) :
       Adapted("gostring", [type |-> "string", rkind |-> "string", v |-> UTF8(cps)],
               cps)

SpecSlices == InitSlices /\ [][NextWalk]_vars

\* a caller at the end of a sequence goes on: First(cur), then cur = Next(cur)
\* (seq_test.go lines 385-390), at most MaxCalls times
Past ==
  /\ cur = Nil
  /\ Cardinality(hist) < 2 * MaxCalls
  /\ LET Ret(f, nx) ==
           /\ SetWorld(nx.w)
           /\ cur' = nx.r
           /\ hist' = hist \cup {[op |-> "First", n |-> cur, r |-> f.r,
                                  k |-> Cardinality(hist)],
                                 [op |-> "Next", n |-> cur, r |-> nx.r,
                                  k |-> Cardinality(hist)]}
         Then(f) == Ret(f, NextOf(f.w, cur))
     IN Then(FirstOf(World, cur))
  /\ UNCHANGED <<fam, given, xf, src, root, known, walked, eager, revisited, procs>>

\* a finite sequence of any variant, read to its end and beyond
InitPast ==
  \E g \in FiniteSources \cup OtherSources :
    Program("past", NoXf, g, Source(W0, g), FALSE, {})

SpecPast == InitPast /\ [][Walk \/ Past]_vars

\* XfrmSequence(script, source), and callers that call Seq, First and Next
SpecScriptCalls == InitScript /\ [][NextCalls]_vars

\* Transduce(Take(n), append, [], source) about to be called, the source an
\* infinite generator or a slice
InitDrive ==
  \E g \in InfiniteSources \cup {[gen |-> "slice", len |-> len] : len \in 0..MaxLen} :
    \E n \in 0..MaxTake :
      LET Built(s) == Start("drive", [kind |-> "take", p |-> n], g, s.r, s, {})
      IN Built(Source(W0, g))

\* seq.go lines 594-595 and 632-636: f := xf(Completing(rfunc)), and Reduce
\* up to its loop: s := Seq(coll), ret = init
TransduceBegin ==
  /\ eager.id = 0
  /\ LET Ret(f, q) == /\ SetWorld(q.w)
                       /\ cur' = q.r
                       /\ eager' = [done |-> FALSE, vals |-> <<>>, id |-> f.r]
         Conv(f) == Ret(f, SeqOf(f.w, src))
     IN Conv(NewXf(World, xf))
  /\ UNCHANGED <<fam, given, xf, src, root, known, walked, hist, revisited, procs>>

\* seq.go lines 637-640: one turn of the loop of Reduce, fn the Step of f;
\* the model follows at most MaxWalk turns
TransduceTurn ==
  /\ eager.id # 0 /\ ~eager.done
  /\ cur # Nil
  /\ Len(xfs[eager.id].stepLog) < MaxWalk
  /\ LET Ret(c, q) == /\ SetWorld(q.w)
                       /\ cur' = q.r
                       /\ eager' = [eager EXCEPT !.vals = c.r.vals]
         Conv(c, nx) == Ret(c, SeqOf(nx.w, nx.r))
         Adv(c) == Conv(c, NextOf(c.w, cur))
         Got(e) == Adv(StepAcc(e.w, eager.id, [vals |-> eager.vals, reduced |-> FALSE],
                               e.r))
     IN Got(FirstOf(World, cur))
  /\ UNCHANGED <<fam, given, xf, src, root, known, walked, hist, revisited, procs>>

\* seq.go lines 641 and 596: the loop of Reduce ended, return f.Result(ret)
TransduceEnd ==
  /\ eager.id # 0 /\ ~eager.done
  /\ cur = Nil
  /\ LET Ret(fin) == /\ SetWorld(fin.w)
                      /\ eager' = [eager EXCEPT !.done = TRUE, !.vals = fin.r.vals]
     IN Ret(ResultAcc(World, eager.id, [vals |-> eager.vals, reduced |-> FALSE]))
  /\ UNCHANGED <<fam, given, xf, src, root, known, cur, walked, hist, revisited,
                 procs>>

SpecDrive == InitDrive /\ [][TransduceBegin \/ TransduceTurn \/ TransduceEnd]_vars

\* d thunks around s = [w, r], each one's producer returning the next:
\* LazySeq(func() Sequence { return LazySeq(... return s ...) })
RECURSIVE Thunks(_, _)
Thunks(s, d) == IF d = 0 THEN s ELSE Thunks(LazySeq(s.w, s.r), d - 1)

\* a chain of 1..MaxDepth nested thunks over a slice or a Filter result;
\* callers hold every thunk of the chain
InitThunks ==
  \E d \in 1..MaxDepth : \E g \in FiniteSources :
    LET Outer(in, t) ==
          Start("thunks", NoXf, g, in.r, t,
                {n \in 1..Len(t.w.heap) : t.w.heap[n].kind = "lazy"})
        Built(in) == Outer(in, Thunks(in, d))
    IN Built(Source(W0, g))

SpecThunks == InitThunks /\ [][NextCalls]_vars

\* the transducers a failing step function is made of: Take(n),
\* PartitionAll(n) with its Map(Seq), and Mapcat of a function that returns
\* its argument twice
FaultyOf(kind, n) ==
  CASE kind = "take" -> [kind |-> kind, p |-> n]
    [] kind = "partitionAll" -> [kind |-> kind, p |-> n]
    [] kind = "filtermapcat" ->
         [kind |-> kind,
          p |-> [keep |-> 0..MaxLen, f |-> [v \in 0..MaxLen |-> <<v, v>>]]]

\* XfrmSequence(xf, slice) with a step function whose failAt-th call panics
InitFaulty ==
  \E len \in 1..MaxLen : \E k \in 1..len : \E cut \in {"before", "during"} :
    \E kind \in {"take", "partitionAll", "filtermapcat"} : \E n \in 1..MaxTake :
      Program("faulty",
              [kind |-> "faulty",
               p |-> [of |-> FaultyOf(kind, n), failAt |-> k, cut |-> cut]],
              [gen |-> "slice", len |-> len],
              Source(W0, [gen |-> "slice", len |-> len]), FALSE, {})

\* callers call Seq, First and Next of the nodes they hold, again after a
\* call that panicked
SpecFaulty == InitFaulty /\ [][NextCalls]_vars

SpecTake == InitTake /\ [][NextLazy]_vars

SpecReduce == InitReduce /\ [][NextLazy]_vars

SpecIdem == InitIdem /\ [][NextCalls]_vars

SpecRange == InitRange /\ [][NextWalk]_vars

SpecRangeZero == InitRangeZero /\ [][NextWalk]_vars

SpecRepeat == InitRepeat /\ [][NextWalk]_vars

\* Repeat(n, x) for every count n, the negative ones included
InitRepeatAny ==
  \E n \in (0 - MaxWalk)..MaxWalk : \E x \in MinInt..MaxInt :
    Program("repeat", NoXf, [gen |-> "repeat", len |-> n, x |-> x],
            Source(W0, [gen |-> "repeat", len |-> n, x |-> x]), FALSE, {})

SpecRepeatAny == InitRepeatAny /\ [][NextWalk]_vars

SpecIterate == InitIterate /\ [][NextCalls]_vars

NextWalkCalls == Walk \/ DoSeq \/ DoFirst \/ DoNext

SpecCycle == InitCycle /\ [][NextWalkCalls]_vars

SpecInterleave == InitInterleave /\ [][NextLazy]_vars

\* -------------------------------------------------------- concurrent callers
(***************************************************************************)
(* A caller p runs the Seq method of a lazySeq or an xfrmSeq node n one     *)
(* step at a time, procs[p].pc naming the statement it is at:               *)
(*   "wait"   at s.mu.Lock(), the call made                                 *)
(*   "locked" the mutex taken (deferred Unlock pending)                     *)
(*   "call", "clear", "unwrap"  lazy_seq.go lines 21, 22 and 25-31          *)
(*   "run"    the loop of xfrm_seq.go lines 63-95 ahead                     *)
(*   "unlock" at the return, procs[p].r the value returned                  *)
(*   "after"  back in First or Next, the mutex released                     *)
(* What a statement calls in other nodes runs within the step.              *)
(***************************************************************************)
\* the positions at which a caller holds the mutex of its node
Held == {"locked", "call", "clear", "unwrap", "run", "unlock"}

\* sync.Mutex without exclusion: Lock never waits
MuNeverHeld(n) == TRUE

\* s.mu.Lock() can proceed: no caller holds the mutex of node n
MuFree(n) == \A q \in DOMAIN procs : ~(procs[q].n = n /\ procs[q].pc \in Held)

\* the nodes with a mutex: lazySeq, xfrmSeq and iterate
Lockable(n) == heap[n].kind \in {"lazy", "interleave", "xfrm", "iterate"}

\* a node taken for its own source
FeedsItself(n) == {n}

\* the nodes the methods of node n call First, Next or Seq of: the source of
\* an xfrmSeq (xfrm_seq.go lines 62-65), what the producer of a lazySeq
\* returned or will return (lazy_seq.go lines 21-29), the rest of a cons, a
\* cycle or an iterate node
Feeds(n) ==
  LET s == heap[n]
  IN (CASE s.kind = "xfrm" -> {s.coll}
        [] s.kind = "lazy" -> {s.fn, s.seq}
        [] s.kind = "interleave" -> {s.colls[i] : i \in DOMAIN s.colls} \cup {s.seq}
        [] s.kind = "cons" -> {s.next}
        [] s.kind = "cycle" -> {s.all, s.seq}
        [] s.kind = "iterate" -> {s.next}
        [] OTHER -> {}) \ {Nil, NoFn}

\* the nodes reached from the nodes ns through their sources
RECURSIVE Upstream(_, _)
Upstream(ns, seen) ==
  IF ns \subseteq seen THEN seen
  ELSE Upstream(UNION {Feeds(m) : m \in ns \ seen}, seen \cup ns)

\* the mutexes a call on a node of ns may go on to take
Entered(ns) == {m \in Upstream(ns, {}) : Lockable(m)}

\* a Lock of a nested call can proceed: the mutexes the calls that the
\* statement at hand makes on the nodes ns take are free
NestedFree(ns) == \A m \in Entered(ns) : MuFree(m)

\* the iterate nodes a chain may grow to before callers stop calling Next
IterateRoom == Cardinality({m \in 1..Len(heap) : heap[m].kind = "iterate"}) <= MaxPipe

At(p, pc) == procs[p].pc = pc

\* caller p goes to pc, its call about to return r
Goto(p, pc, r) == procs' = [procs EXCEPT ![p].pc = pc, ![p].r = r]

Program_ == <<fam, given, xf, src, root, cur, walked, eager, revisited>>

\* caller p calls Seq, First or Next of a node it holds
Begin(p) ==
  /\ At(p, "idle")
  /\ \E n \in known : \E op \in {"Seq", "First", "Next"} :
       /\ Lockable(n)
       /\ heap[n].kind = "iterate" => op # "Seq" /\ (op = "Next" => IterateRoom)
       /\ procs' = [procs EXCEPT ![p] = [pc |-> "wait", op |-> op, n |-> n,
                                           r |-> Nil]]
  /\ UNCHANGED <<heap, xfs, rlog, known, hist, Program_>>

\* lazy_seq.go line 18, xfrm_seq.go line 43: s.mu.Lock()
Lock(p) ==
  /\ At(p, "wait")
  /\ MuFree(procs[p].n)
  /\ Goto(p, "locked", Nil)
  /\ UNCHANGED <<heap, xfs, rlog, known, hist, Program_>>

\* lazy_seq.go line 20: if s.fn != nil; xfrm_seq.go lines 45-47: a realized
\* node returns itself
Check(p) ==
  /\ At(p, "locked")
  /\ LET s == heap[procs[p].n]
     IN IF s.kind = "xfrm"
        THEN IF Realized(s) THEN Goto(p, "unlock", procs[p].n)
             ELSE Goto(p, "run", Nil)
        ELSE IF s.kind = "iterate" THEN Goto(p, "run", Nil)
        ELSE Goto(p, IF s.fn # NoFn THEN "call" ELSE "unwrap", Nil)
  /\ UNCHANGED <<heap, xfs, rlog, known, hist, Program_>>

\* lazy_seq.go line 21: s.seq = s.fn()
CallFn(p) ==
  /\ At(p, "call")
  /\ NestedFree(Feeds(procs[p].n))
  /\ SetWorld(RunFn(World, procs[p].n))
  /\ Goto(p, "clear", Nil)
  /\ UNCHANGED <<known, hist, Program_>>

\* lazy_seq.go line 22: s.fn = nil
DropFn(p) ==
  /\ At(p, "clear")
  /\ SetWorld(ClearFn(World, procs[p].n))
  /\ Goto(p, "unwrap", Nil)
  /\ UNCHANGED <<known, hist, Program_>>

\* lazy_seq.go lines 25-31: nested thunks followed, the result stored
Unwrap(p) ==
  /\ At(p, "unwrap")
  /\ NestedFree(Feeds(procs[p].n))
  /\ LET Ret(u) == /\ SetWorld([u.w EXCEPT !.heap[procs[p].n].seq = u.r])
                   /\ Goto(p, "unlock", u.r)
     IN Ret(Call(World, "unwrap", heap[procs[p].n].seq, Nil))
  /\ UNCHANGED <<known, hist, Program_>>

\* xfrm_seq.go lines 63-99: the loop, and the value Seq returns;
\* iterate.go lines 25-26 and 38-45: the body of First or Next
Run(p) ==
  /\ At(p, "run")
  /\ LET n == procs[p].n
         Ret(q) == /\ SetWorld(q.w)
                   /\ Goto(p, "unlock", SeqResult(q.w.heap[n], n))
         Got(q) == SetWorld(q.w) /\ Goto(p, "unlock", q.r)
     IN IF heap[n].kind = "iterate"
        THEN Got(IF procs[p].op = "First" THEN iterateFirst(World, n)
                 ELSE iterateNext(World, n))
        ELSE /\ NestedFree(Feeds(n))
             /\ Ret(Call([World EXCEPT !.heap[n].runs = @ + 1], "loop", n,
                         heap[n].coll))
  /\ UNCHANGED <<known, hist, Program_>>

\* the deferred s.mu.Unlock() as Seq returns
Unlock(p) ==
  /\ At(p, "unlock")
  /\ Goto(p, "after", procs[p].r)
  /\ UNCHANGED <<heap, xfs, rlog, known, hist, Program_>>

\* lazy_seq.go lines 37-40 and 44-47, xfrm_seq.go lines 104 and 109: what
\* First and Next do with the field they read once Seq has returned
Rest(w, s, op) ==
  IF s.kind = "xfrm" THEN Call(w, op, s.bufferedColl, Nil)
  ELSE IF s.seq = Nil THEN [w |-> w, r |-> Nil]
  ELSE Call(w, op, s.seq, Nil)

\* the nodes First and Next call First or Next of once Seq has returned
RestOf(s) == IF s.kind \in {"lazy", "interleave"} THEN {s.seq} \ {Nil} ELSE {}

\* the calls whose results are kept for comparison
Observed == fam # "locks"

\* the call of caller p returns to its caller
Return(p) ==
  /\ At(p, "after")
  /\ procs[p].op # "Seq" => NestedFree(RestOf(heap[procs[p].n]))
  /\ LET c == procs[p]
         Ret(q) == /\ SetWorld(q.w)
                   /\ known' = IF c.op = "First" THEN known
                                ELSE known \cup ({q.r} \ {Nil})
                   /\ hist' = IF ~Observed THEN hist
                              ELSE hist \cup {[op |-> c.op, n |-> c.n, r |-> q.r]}
     IN Ret(IF c.op = "Seq" \/ heap[c.n].kind = "iterate"
            THEN [w |-> World, r |-> c.r]
            ELSE Rest(World, heap[c.n], c.op))
  /\ procs' = [procs EXCEPT ![p] = Idle]
  /\ UNCHANGED Program_

DoBegin == \E p \in Callers : Begin(p)

DoLock == \E p \in Callers : Lock(p)

DoCheck == \E p \in Callers : Check(p)

DoCallFn == \E p \in Callers : CallFn(p)

DoDropFn == \E p \in Callers : DropFn(p)

DoUnwrap == \E p \in Callers : Unwrap(p)

DoRun == \E p \in Callers : Run(p)

DoUnlock == \E p \in Callers : Unlock(p)

DoReturn == \E p \in Callers : Return(p)

\* LazySeq thunks over a slice, one of them nested
LazySources == {[gen |-> k, len |-> len] : k \in {"lazy", "lazylazy"}, len \in 0..MaxLen}

\* callers that call Seq, First and Next of one thunk concurrently
InitLazyConc ==
  \E g \in LazySources :
    Program("lazyConc", NoXf, g, Source(W0, g), FALSE, {})

NextLazyConc ==
  \/ DoBegin \/ DoLock \/ DoCheck \/ DoCallFn \/ DoDropFn \/ DoUnwrap
  \/ DoUnlock \/ DoReturn

SpecLazyConc == InitLazyConc /\ [][NextLazyConc]_vars

\* Filter(pred) for every pred over the elements, and Take(n)
ChainXfs ==
  {[kind |-> "filter", p |-> keep] : keep \in SUBSET (1..MaxLen)}
  \cup {[kind |-> "take", p |-> n] : n \in 0..MaxTake}

\* callers that call Seq, First and Next of the nodes of one
\* XfrmSequence(xf, slice) chain concurrently
InitXfrmConc ==
  \E len \in 0..MaxLen : \E x \in ChainXfs :
    Program("xfrmConc", x, [gen |-> "slice", len |-> len],
            Source(W0, [gen |-> "slice", len |-> len]), FALSE, {})

NextXfrmConc ==
  DoBegin \/ DoLock \/ DoCheck \/ DoRun \/ DoUnlock \/ DoReturn

SpecXfrmConc == InitXfrmConc /\ [][NextXfrmConc]_vars

\* what one caller does next in its call, whatever position it is at
Step(p) ==
  \/ Lock(p) \/ Check(p) \/ CallFn(p) \/ DropFn(p) \/ Unwrap(p) \/ Run(p)
  \/ Unlock(p) \/ Return(p)

\* the pipelines of nested lazy nodes: d thunks around a slice, a
\* transducing chain over them, thunks around a transducing chain, and
\* Take(n) of Iterate(succ, 1)
Pipeline(w, g) ==
  LET Around(s) == Thunks(s, g.d)
      Over(s) == Wrapped(g.x, s)
  IN CASE g.gen = "thunks" -> Around(SliceSrc(w, g.len))
       [] g.gen = "over" -> Over(Around(SliceSrc(w, g.len)))
       [] g.gen = "around" -> Around(Over(SliceSrc(w, g.len)))
       [] g.gen = "taken" -> Over(iterateNew(w, "succ", 1))

\* the pipeline of shape k with d thunks, the transducer named xk and a
\* source of len elements
PipelineOf(k, d, xk, len) ==
  [gen |-> k, d |-> d, len |-> len,
   x |-> CASE k = "thunks" -> NoXf
           [] k = "taken" -> [kind |-> "take", p |-> len]
           [] xk = "filter" -> [kind |-> "filter", p |-> {1}]
           [] OTHER -> [kind |-> "take", p |-> 1]]

\* callers hold every node of the pipeline that has a mutex
InitLocks ==
  \E k \in {"thunks", "over", "around", "taken"} :
    \E d \in 1..(MaxPipe + 1) : \E xk \in {"filter", "take"} :
      \E len \in 0..MaxPipe :
        /\ k # "thunks" => d <= MaxPipe
        /\ k \in {"thunks", "taken"} => xk = "take"
        /\ k = "taken" => d = 1
        /\ LET Built(g, t) ==
                 Start("locks", g.x, g, t.r, t,
                       {n \in 1..Len(t.w.heap) :
                          t.w.heap[n].kind \in {"lazy", "xfrm", "iterate"}})
                Of(g) == Built(g, Pipeline(W0, g))
           IN Of(PipelineOf(k, d, xk, len))

NextLocks ==
  \/ DoBegin \/ DoLock \/ DoCheck \/ DoCallFn \/ DoDropFn \/ DoUnwrap
  \/ DoRun \/ DoUnlock \/ DoReturn

\* caller p waits for a mutex another caller holds
Blocked(p) ==
  LET c == procs[p]
  IN \/ c.pc = "wait" /\ ~MuFree(c.n)
     \/ c.pc \in {"call", "unwrap"} /\ ~NestedFree(Feeds(c.n))
     \/ c.pc = "run" /\ heap[c.n].kind = "xfrm" /\ ~NestedFree(Feeds(c.n))
     \/ c.pc = "after" /\ c.op # "Seq" /\ ~NestedFree(RestOf(heap[c.n]))

\* the positions of a call
Positions == Held \cup {"idle", "wait", "after"}

\* Step(p) as the positions show it: caller p, in a call and not waiting
\* for a mutex, goes to its next position
Moves(p) ==
  /\ procs[p].pc # "idle"
  /\ ~Blocked(p)
  /\ \E pc \in Positions \ {procs[p].pc} :
       \E r \in {Panic} \cup (0..(Len(heap) + MaxLen)) :
         procs' = [procs EXCEPT ![p] = IF pc = "idle" THEN Idle
                                        ELSE [@ EXCEPT !.pc = pc, !.r = r]]

\* sync.Mutex hands a mutex to a caller that waited (starvation mode), and
\* the scheduler runs every goroutine that can run
SpecLocks ==
  InitLocks /\ [][NextLocks]_vars /\ \A p \in Callers : SF_procs(Moves(p))

\* ------------------------------------------------------------- properties
XfrmNodes == {n \in 1..Len(heap) : heap[n].kind = "xfrm"}

\* the i-th element of the source g denotes
GivenElem(g, i) ==
  CASE g.gen \in {"slice", "filter", "lazy", "lazylazy"} -> i
    [] g.gen \in {"goslice", "gostring"} -> g.elems[i]
    [] g.gen = "range" -> g.start + (i - 1) * g.step
    [] g.gen \in {"repeat", "forever"} -> g.x
    [] g.gen = "iterate" -> IF g.fn = "succ" THEN g.x + i - 1 ELSE g.x
    [] g.gen = "cycle" -> ((i - 1) % g.len) + 1
    [] g.gen = "cons" -> IF i = 1 THEN g.x ELSE i - 1

\* how many elements the finite source g denotes
GivenLen(g) ==
  CASE g.gen = "range" ->
         IF g.step > 0
         THEN IF g.start >= g.end THEN 0 ELSE ((g.end - g.start - 1) \div g.step) + 1
         ELSE IF g.start <= g.end THEN 0
              ELSE ((g.start - g.end - 1) \div (0 - g.step)) + 1
    [] g.gen = "cons" -> g.len + 1
    [] OTHER -> g.len

\* the first k elements of the source g denotes
GivenPrefix(g, k) == [i \in 1..k |-> GivenElem(g, i)]

\* the elements of the finite source the program text denotes
GivenElems == GivenPrefix(given, GivenLen(given))

NotNil(v) == v # Nil

\* no value occurs twice in log
Once(log) == \A i \in DOMAIN log : \A j \in DOMAIN log : log[i] = log[j] => i = j

\* how many values a scripted step function emits when Step is called k
\* times and Result once
RECURSIVE ScriptEmits(_, _)
ScriptEmits(p, k) ==
  IF k = 0 THEN p.fin ELSE p.steps[k].n + ScriptEmits(p, k - 1)

\* C2: once XfrmSequence(xf, s) has been traversed to its end, the traversal
\* has yielded every value the step function emitted, in its Step calls and
\* in its Result call, exactly once and in emission order.
C2_EveryEmittedValueAppears ==
  (walked.done /\ root # Nil) =>
    SelectSeq(walked.acc, NotNil) = xfs[heap[root].step].emitLog

\* C5: whatever Seq, First and Next calls were made on the nodes of a chain,
\* the loop of each node has run at most once, and no source element was
\* passed to Step twice.
C5_RealizedAtMostOnce ==
  \A n \in XfrmNodes :
    heap[n].runs <= 1 /\ Once(xfs[heap[n].step].stepLog)

\* a realized chain over two or more elements was called again and then
\* traversed from its head
C5_Revisited ==
  /\ revisited /\ walked.done /\ root # Nil
  /\ heap[root].runs = 1
  /\ Len(xfs[heap[root].step].stepLog) >= 2

\* C9: when Transduce(xf, append, [], s) has returned, Result was called
\* exactly once, after a Step call for each element of s in order, and the
\* value returned holds what Step and then Result handed to append.
C9_CompleteOnceAfterLastStep ==
  eager.done =>
    LET x == xfs[eager.id]
        k == given.len
    IN /\ x.completes = 1
       /\ x.stepLog = GivenElems
       /\ x.ops = [i \in 1..(k + 1) |-> IF i <= k THEN "step" ELSE "result"]
       /\ eager.vals = IdRange(1, ScriptEmits(xf.p, k))

\* the maximal runs of consecutive elements of s with equal keys
RECURSIVE Runs(_, _)
Runs(s, key) ==
  IF s = <<>> THEN <<>>
  ELSE LET n == CHOOSE n \in 1..Len(s) :
                  /\ \A i \in 1..n : key[s[i]] = key[s[1]]
                  /\ n < Len(s) => key[s[n + 1]] # key[s[1]]
       IN <<SubSeq(s, 1, n)>> \o Runs(SubSeq(s, n + 1, Len(s)), key)

\* s cut into chunks of n elements, the last one shorter if need be
RECURSIVE Chunks(_, _)
Chunks(s, n) ==
  IF Len(s) <= n THEN (IF s = <<>> THEN <<>> ELSE <<s>>)
  ELSE <<SubSeq(s, 1, n)>> \o Chunks(SubSeq(s, n + 1, Len(s)), n)

\* the elements of each partition a traversal yielded (a nil partition has
\* none)
Parts(acc) ==
  [i \in 1..Len(acc) |-> IF acc[i] = Nil THEN <<>> ELSE heap[acc[i]].v]

\* C1: for a transducer composed of a filter and a flatten, the full
\* traversal of XfrmSequence(xf, s) yields the values, in the same order,
\* that Transduce(xf, append, [], s) collects.
C1_LazyEqualsEager ==
  (walked.done /\ eager.done /\ xf.kind = "filtermapcat") =>
    walked.acc = eager.vals

\* C3: for a non-empty source s, PartitionBy(f, s) yields the maximal runs
\* of consecutive elements of s with equal f-values, in order, none missing.
C3_PartitionByRuns ==
  (walked.done /\ xf.kind = "partitionBy" /\ GivenLen(given) > 0) =>
    Parts(walked.acc) = Runs(GivenElems, xf.p)

\* C4: PartitionAll(n, s) yields the consecutive chunks of n elements of s,
\* then one chunk with the remaining elements if there are any.
C4_PartitionAllChunks ==
  (walked.done /\ xf.kind = "partitionAll") =>
    Parts(walked.acc) = Chunks(GivenElems, xf.p)

\* C7: the full traversal of Take(n, g), g an infinite generator, ends and
\* yields exactly the first n elements of g.
C7_TakeFromInfinite ==
  walked.done => walked.acc = GivenPrefix(given, xf.p)

\* what a fold with the reducing function named fn makes of es
RECURSIVE Fold(_, _, _)
Fold(fn, acc, es) ==
  IF es = <<>> THEN acc
  ELSE Fold(fn, IF fn = "append" THEN Append(acc, Head(es)) ELSE <<Head(es)>> \o acc,
            Tail(es))

\* C8: Reduce(fn, init, s) has called fn once per element of s, in order,
\* each time with the accumulator of the call before, and returned the last
\* accumulator (init, with no call, when s has no elements).
C8_ReduceOncePerElement ==
  walked.done =>
    /\ rlog = [i \in 1..Len(GivenElems) |->
                [acc |-> Fold(walked.fn, <<>>, SubSeq(GivenElems, 1, i - 1)),
                 in |-> GivenElems[i]]]
    /\ walked.acc = Fold(walked.fn, <<>>, GivenElems)

\* C6: two First calls on one node returned the same value, and two Next
\* calls on one node returned sequences with the same elements, whatever was
\* called in between.
C6_FirstNextIdempotent ==
  \A h1 \in hist : \A h2 \in hist :
    (h1.op \in {"First", "Next"} /\ h1.op = h2.op /\ h1.n = h2.n) => h1.r = h2.r

IsPrefix(a, b) == Len(a) <= Len(b) /\ a = SubSeq(b, 1, Len(a))

\* C10: Range(start, end, step), step not 0, yields start, start + step,
\* start + 2 * step, ... as long as the value is before end, and is nil when
\* start is not before end.
C10_RangeProgression ==
  /\ IsPrefix(walked.acc, GivenElems)
  /\ (cur = Nil) <=> (walked.acc = GivenElems)

\* C11: Range(a, a, 0) is nil; Range(a, b, 0) with a # b never ends: every
\* node reached by Next is non-nil and its First is a.
C11_ZeroStepRange ==
  given.step = 0 =>
    IF given.start = given.end THEN root = Nil
    ELSE /\ cur # Nil
         /\ \A i \in 1..Len(walked.acc) : walked.acc[i] = given.start

\* a caller has read MaxWalk elements off Range(a, b, 0), a # b
C11_ZeroStepWalked ==
  /\ given.step = 0 /\ given.start # given.end
  /\ Len(walked.acc) = MaxWalk

\* C12: Repeat(n, x), n >= 0, has exactly n elements, each x: the walk from
\* the head reads x at every node and reaches nil after n Next steps, not
\* earlier.
C12_RepeatExactlyN ==
  given.gen = "repeat" =>
    /\ \A i \in 1..Len(walked.acc) : walked.acc[i] = given.x
    /\ Len(walked.acc) <= given.len
    /\ (cur = Nil) <=> (Len(walked.acc) = given.len)

\* fn applied k times to x
RECURSIVE Iterated(_, _, _)
Iterated(fn, x, k) == IF k = 0 THEN x ELSE apply(fn, Iterated(fn, x, k - 1))

\* how many Next calls lead from the head of an Iterate chain to its node n
RECURSIVE IterateDepth(_)
IterateDepth(n) ==
  IF n = root THEN 0
  ELSE 1 + IterateDepth(CHOOSE m \in 1..Len(heap) : heap[m].next = n)

\* C13: on the node reached by k Next calls from Iterate(fn, x), First is fn
\* applied k times to x, and Next and Seq return a sequence that goes on
\* with the following applications and does not end.
C13_IterateKth ==
  \A h \in hist :
    LET k == IterateDepth(h.n)
        from == IF h.op = "Next" THEN k + 1 ELSE k
    IN h.r = [i \in 1..Len(h.r) |-> Iterated(given.fn, given.x, from + i - 1)]
       /\ Len(h.r) = (IF h.op = "First" THEN 1 ELSE Look)

\* in a doubling chain First was called on the node two Next calls from the
\* head, after Next and First on the node before it
C13_IterateDeep ==
  /\ given.fn = "double"
  /\ \E h1 \in hist : \E h2 \in hist : \E h3 \in hist :
       /\ h1.op = "First" /\ IterateDepth(h1.n) = 2
       /\ h2.op = "Next" /\ IterateDepth(h2.n) = 1
       /\ h3.op = "First" /\ h3.n = h2.n

\* the iterate nodes allocated so far
IterateNodes == {n \in 1..Len(heap) : heap[n].kind = "iterate"}

\* C14: whatever First and Next calls were made on the nodes of an Iterate
\* chain, fn was applied at most once for each node.
C14_IterateMemoized == \A n \in IterateNodes : heap[n].calls <= 1

\* C15: for a sequence s of n >= 1 elements, of any variant, the i-th
\* element of Cycle(s) is the (i mod n)-th element of s (counting from 0),
\* and no node of the cycle is nil, whatever else callers did with s and
\* with the nodes of the cycle.
C15_CycleModN ==
  (given.gen = "cycleOver" /\ GivenLen(given.of) >= 1) =>
    /\ cur # Nil
    /\ walked.acc = [i \in 1..Len(walked.acc) |->
                       GivenElem(given.of, ((i - 1) % GivenLen(given.of)) + 1)]

\* C16: Cycle over an empty anchor is an empty sequence: its traversal ends
\* at once, and no call on it ends in a panic.
C16_EmptyCycleEnds ==
  (given.gen = "cycleOver" /\ GivenLen(given.of) = 0) =>
    /\ cur = Nil
    /\ ~Panicked

\* the length of the shortest of the sources gs
MinLen(gs) ==
  CHOOSE m \in {GivenLen(gs[j]) : j \in DOMAIN gs} :
    \A j \in DOMAIN gs : m <= GivenLen(gs[j])

\* C17: Interleave(c_0, ..., c_{k-1}) yields k * m elements, m the length of
\* the shortest input; the element at position i * k + j is the i-th
\* element of c_j.
C17_InterleaveRoundRobin ==
  (walked.done /\ given.gen = "interleave") =>
    LET k == Len(given.of)
    IN walked.acc = [p \in 1..(k * MinLen(given.of)) |->
                       GivenElem(given.of[((p - 1) % k) + 1], ((p - 1) \div k) + 1)]

\* the thunks allocated so far
LazyNodes == {n \in 1..Len(heap) : heap[n].kind \in {"lazy", "interleave"}}

\* C18: however the Seq, First and Next calls of concurrent callers on one
\* thunk interleave, its producer has run at most once, exactly once when a
\* call has returned, and two calls of the same operation returned the same
\* result.
C18_ProducerOnce ==
  /\ \A n \in LazyNodes : heap[n].calls <= 1
  /\ \A h \in hist : heap[h.n].calls = 1
  /\ \A h1 \in hist : \A h2 \in hist :
       (h1.op = h2.op /\ h1.n = h2.n) => h1.r = h2.r

\* one caller has run the producer of a thunk over a non-empty slice and
\* still holds its mutex, another waits at Lock for the same thunk
C18_Contended ==
  \E p \in DOMAIN procs : \E q \in DOMAIN procs :
    /\ procs[p].pc = "clear" /\ procs[q].pc = "wait"
    /\ procs[p].n = root /\ procs[q].n = root
    /\ given.len > 0

\* the callers that are in the loop of a node whose step function is id
Using(id) ==
  {p \in DOMAIN procs : procs[p].pc = "run" /\ heap[procs[p].n].step = id}

\* no two callers use the step function and the buffer of a chain at once
ChainExclusive == \A id \in DOMAIN xfs : Cardinality(Using(id)) <= 1

\* the step function of a chain saw the source elements in source order
ChainInOrder == \A id \in DOMAIN xfs : IsPrefix(xfs[id].stepLog, GivenElems)

\* two calls of one operation on one node returned the same
SameObserved ==
  \A h1 \in hist : \A h2 \in hist :
    (h1.op = h2.op /\ h1.n = h2.n) => h1.r = h2.r

\* C19: however the Seq, First and Next calls of concurrent callers on the
\* nodes of one chain interleave, no two callers use the chain's step
\* function and buffer at once, the step function sees the source elements
\* in source order, and all callers observe the same at every node.
C19_ChainSerialized == ChainExclusive /\ ChainInOrder /\ SameObserved

\* s = [w, r], r what Seq returned: r is nil, or a node that holds nothing
\* (a transducing node completed with no output, a cycle with a nil anchor)
Hollow(s) ==
  \/ s.r = Nil
  \/ s.w.heap[s.r].kind = "xfrm" /\ s.w.heap[s.r].bufferedColl = Nil
  \/ s.w.heap[s.r].kind = "cycle" /\ s.w.heap[s.r].all = Nil

\* the sequence n has no elements: converting it (a thunk's result once
\* more) ends in nil or in a node that holds nothing
NoElements(w, n) ==
  LET Again(s) == Hollow(SeqOf(s.w, s.r))
  IN Again(SeqOf(w, n))

\* C20: no node that a constructor, Seq or Next returned to a caller is a
\* non-nil node with no elements.
C20_EmptyIsNil == \A n \in known : ~NoElements(World, n)

\* C21: when the source has no elements (it is nil, or it realizes to
\* nothing), XfrmSequence(xf, source) is nil, and Step is never called.
C21_EmptySourceEmpty ==
  GivenLen(given) = 0 =>
    /\ root = Nil
    /\ \A n \in XfrmNodes :
         heap[n].coll = src => xfs[heap[n].step].stepLog = <<>>

\* the state of the transducer of after k Step calls on the elements 1..k
StateAfter(of, k) ==
  CASE of.kind = "take" -> of.p - k
    [] of.kind = "partitionAll" -> [part |-> IdRange(k - (k % of.p) + 1, k % of.p)]
    [] OTHER -> Nil

\* C22: a failed realization leaves nothing behind. Whenever a node of the
\* chain is unrealized (never tried, or its realization failed), the buffer
\* is empty and the step function is in the state the elements in front of
\* the node's source position put it in: a retry starts where the failed
\* attempt started.
C22_FailureLeavesNoTrace ==
  \A n \in XfrmNodes :
    ~Realized(heap[n]) =>
      /\ xfs[heap[n].step].buffer = <<>>
      /\ xfs[heap[n].step].st =
           StateAfter(xf.p.of, GivenLen(given) - Len(heap[heap[n].coll].v))

\* the renderings of vs, one space between two of them
RECURSIVE Joined(_)
Joined(vs) ==
  IF vs = <<>> THEN ""
  ELSE IF Len(vs) = 1 THEN ToString(vs[1])
  ELSE ToString(vs[1]) \o " " \o Joined(Tail(vs))

\* C23: the rendering of a finite sequence is "(", its elements in order with
\* exactly one space between two of them and none after the last, then ")";
\* a sequence without elements renders as "()".
C23_Rendering ==
  (walked.done /\ walked.fn = "String") =>
    walked.acc = "(" \o Joined(GivenElems) \o ")"

\* the kinds of value the conversion is defined for
Convertible == {"nil", "slice", "string", "map"}

\* C24: Seq of a value that is not nil, not a sequence, not a slice, a string
\* or a map fails with an error that names the type of the value, and returns
\* no sequence; Seq leaves the value it converts as it was.
C24_UnsupportedTypeFails ==
  /\ \A c \in hist :
       given.rkind \notin Convertible =>
         /\ c.r = Panic
         /\ \E i \in DOMAIN c.err : c.err[i] = given.type
         /\ root = Nil
  /\ src # Nil =>
       /\ heap[src].type = given.type
       /\ heap[src].rkind = given.rkind
       /\ heap[src].v = given.v

\* Seq was applied to an array and failed
C24_ArrayRefused ==
  /\ given.rkind = "array"
  /\ \E c \in hist : c.r = Panic

\* C25: Seq(xs) of a slice is nil when xs is empty; otherwise First and Next
\* yield xs[0], ..., xs[len-1] in order, and then nil. Seq of a string
\* yields the code points of the string in order.
C25_SliceInOrder ==
  /\ (root = Nil) <=> (GivenLen(given) = 0)
  /\ IsPrefix(walked.acc, GivenElems)
  /\ (cur = Nil) <=> (walked.acc = GivenElems)

\* a string with a two-byte code point has been read to its end
C25_StringRead ==
  /\ given.gen = "gostring"
  /\ \E i \in 1..Len(given.elems) : given.elems[i] > 127
  /\ Len(walked.acc) >= 2
  /\ walked.done

\* C26: First(nil) and Next(nil) return nil and do not fail, so every further
\* First and Next past the end of a sequence returns nil: First(Next^k(nil))
\* is nil for every k.
C26_NilFixedPoint ==
  /\ \A c \in hist : c.n = Nil /\ c.r = Nil
  /\ hist # {} => cur = Nil

\* First(Next^k(nil)) for k = MaxCalls - 1, on a sequence that was nil from
\* the start
C26_PastTheEnd ==
  /\ root = Nil
  /\ Cardinality(hist) = 2 * MaxCalls

\* the nodes of the chain of root
ChainNodes == {n \in XfrmNodes : heap[n].step = heap[root].step}

\* C27: for the chain of XfrmSequence(xf, source), whatever First, Next and
\* Seq calls were made, Result was called at most once, and exactly once when
\* the chain has been read to its end; the call was made by the one node
\* that saw the source end or a reduced result; no Step call follows it.
C27_CompleteAtMostOnce ==
  root # Nil =>
    LET x == xfs[heap[root].step]
    IN /\ x.completes <= 1
       /\ walked.done => x.completes = 1
       /\ Cardinality({n \in ChainNodes : heap[n].completed}) = x.completes
       /\ \A i \in DOMAIN x.ops : \A j \in DOMAIN x.ops :
            (x.ops[i] = "result" /\ i < j) => x.ops[j] # "step"

\* a chain of two nodes was read to its end, and callers came back to a
\* realized node
C27_ReadToTheEnd ==
  /\ root # Nil
  /\ walked.done /\ revisited
  /\ Cardinality(ChainNodes) >= 2
  /\ xfs[heap[root].step].completes = 1

\* C28: a transducing node that completed with an empty buffer is nil for
\* good: Seq, First and Next of it return nil, on every call.
C28_CompletedEmptyStaysNil ==
  \A n \in XfrmNodes :
    (heap[n].completed /\ heap[n].bufferedColl = Nil) =>
      /\ SeqOf(World, n).r = Nil
      /\ FirstOf(World, n).r = Nil
      /\ NextOf(World, n).r = Nil

\* C29: when XfrmSequence(xf, source) has been read to its end, Step was
\* called once for each of the n elements of the source, in order (for the
\* elements up to the one Step returned reduced for), and never for nil in
\* the place of an element; this for a source that ends in a node that
\* realizes to nothing as well.
C29_StepOncePerElement ==
  (root # Nil /\ walked.done) =>
    LET x == xfs[heap[root].step]
    IN /\ IsPrefix(x.stepLog, GivenElems)
       /\ (\A i \in DOMAIN xf.p.steps : ~xf.p.steps[i].red) =>
            x.stepLog = GivenElems

\* how many values the k-th Step call of the scripted step function emits
ScriptN(k) == IF k <= Len(xf.p.steps) THEN xf.p.steps[k].n ELSE 0

\* this step realizes node n
Realizing(n) == ~Realized(heap[n]) /\ Realized(heap'[n])

\* C30: a call that realizes a node of the chain stops at the Step call that
\* first puts a value into the buffer (or at the completion): the Step calls
\* it made before that one emitted nothing, and the child node it attached
\* is unrealized when the call returns.
C30_RealizesOneNode ==
  [][\A n \in XfrmNodes :
       (heap[n].step = heap[root].step /\ Realizing(n)) =>
         /\ \A m \in (Len(heap) + 1)..Len(heap') :
              (heap'[m].kind = "xfrm" /\ heap'[m].step = heap[n].step) =>
                (~Realized(heap'[m]) /\ heap'[m].runs = 0)
         /\ \A k \in (Len(xfs[heap[n].step].stepLog) + 1)
                      ..(Len(xfs'[heap[n].step].stepLog) - 1) : ScriptN(k) = 0
         /\ (heap'[n].bufferedColl # Nil /\ ~heap'[n].completed) =>
              ScriptN(Len(xfs'[heap[n].step].stepLog)) > 0]_vars

\* the root was realized by a call that stepped two elements, and its child
\* has not been realized
C30_ChildUnrealized ==
  /\ root # Nil
  /\ heap[root].bufferedColl # Nil
  /\ Len(xfs[heap[root].step].stepLog) = 2
  /\ \E m \in ChainNodes : m # root /\ ~Realized(heap[m]) /\ heap[m].runs = 0

\* the Step call of the scripted step function that returned reduced (0: none
\* of the calls made so far)
ReducedAt ==
  IF \E k \in 1..Len(xfs[heap[root].step].stepLog) :
       k <= Len(xf.p.steps) /\ xf.p.steps[k].red
  THEN CHOOSE k \in 1..Len(xfs[heap[root].step].stepLog) :
         k <= Len(xf.p.steps) /\ xf.p.steps[k].red
  ELSE 0

\* C31: once a Step call of the chain returned reduced, Step is not called
\* again, no child node has been attached for the rest of the source, and no
\* later Seq, First or Next call on a node of the chain pulls from the source
\* (or changes anything at all).
C31_ReducedStops ==
  (root # Nil /\ ReducedAt > 0) =>
    /\ Len(xfs[heap[root].step].stepLog) = ReducedAt
    /\ \A n \in ChainNodes : Realized(heap[n])
    /\ \A n \in known :
         /\ SeqOf(World, n).w = World
         /\ FirstOf(World, n).w = World
         /\ NextOf(World, n).w = World

\* the first Step call returned reduced with an element left in the source,
\* and callers came back afterwards
C31_StoppedEarly ==
  /\ root # Nil
  /\ ReducedAt = 1
  /\ given.len >= 2
  /\ revisited

\* the Step call at which Take(n) returns a reduced result
TakeReducesAt(n) == IF n > 1 THEN n ELSE 1

\* C32: once the step function returned a reduced result, Reduce (and
\* Transduce on top of it) calls it no more and pulls no further element:
\* Transduce(Take(n), rf, init, source) makes no Step call after the one
\* that returned reduced.
C32_ReduceHonorsReduced ==
  eager.id # 0 => Len(xfs[eager.id].stepLog) <= TakeReducesAt(xf.p)

\* every producer of w has run exactly once
AllRanOnce(w) ==
  \A n \in 1..Len(w.heap) : w.heap[n].kind = "lazy" => w.heap[n].calls = 1

\* n is nil or a sequence that is not a thunk
NotThunk(n) == n = Nil \/ heap[n].kind # "lazy"

\* C33: forcing a thunk whose producer returns nested thunks stores the
\* innermost sequence that is not a thunk (src, possibly nil): Seq of every
\* thunk of the chain returns it and never a thunk, First and Next of the
\* thunk are First and Next of it (nil for good when it is nil), and every
\* producer of the chain runs exactly once.
C33_NestedThunksUnwrap ==
  /\ NotThunk(src)
  /\ \A n \in LazyNodes :
       /\ heap[n].calls <= 1
       /\ heap[n].fn = NoFn => (heap[n].calls = 1 /\ heap[n].seq = src)
       /\ SeqOf(World, n).r = src
       /\ FirstOf(World, n).r = FirstOf(World, src).r
       /\ NextOf(World, n).r = NextOf(World, src).r
  /\ AllRanOnce(SeqOf(World, root).w)

\* a chain of MaxDepth thunks has been forced from the outside, and callers
\* came back to it
C33_ChainForced ==
  /\ Cardinality(LazyNodes) >= 3
  /\ \A n \in LazyNodes : heap[n].fn = NoFn /\ heap[n].calls = 1
  /\ src # Nil
  /\ Cardinality(known) > Cardinality(LazyNodes)

\* no node with a mutex is reached from its own sources
LockOrder == \A n \in 1..Len(heap) : Lockable(n) => n \notin Entered(Feeds(n))

\* some caller in a call can take its next step
NotStuck ==
  (\E p \in Callers : procs[p].pc # "idle")
    => \E p \in Callers : procs[p].pc # "idle" /\ ~Blocked(p)

\* C34: in a pipeline of thunks, transducing nodes and iterate nodes over
\* a finite source, with callers calling Seq, First and Next of any of its
\* nodes concurrently, the mutexes a call takes while it holds one are of
\* nodes nearer the source, in no state are all callers in a call waiting
\* for one another, and every call returns.
C34_NoDeadlock ==
  /\ [](LockOrder /\ NotStuck)
  /\ \A p \in Callers : (procs[p].pc # "idle") ~> (procs[p].pc = "idle")

\* a caller in the loop of a transducing node, or unwrapping a thunk, waits
\* for the mutex of a node nearer the source that another caller holds
C34_NestedWait ==
  \E p \in Callers : \E q \in Callers :
    /\ procs[p].pc \in {"unwrap", "run"}
    /\ procs[q].pc \in Held
    /\ procs[q].n \in Entered(Feeds(procs[p].n))

\* the elements of the nodes of a chain from c on, as far as they are
\* realized: the cons cells of each node's bufferedColl, then its child's
RECURSIVE ChainOut(_, _)
ChainOut(c, fuel) ==
  IF c = Nil \/ fuel = 0 THEN <<>>
  ELSE IF heap[c].kind = "cons"
  THEN <<heap[c].first>> \o ChainOut(heap[c].next, fuel - 1)
  ELSE IF heap[c].kind = "xfrm" THEN ChainOut(heap[c].bufferedColl, fuel - 1)
  ELSE <<>>

\* every value buffer.add was called with for the chain of root, in order:
\* those linked into the nodes' outputs, then those still in the buffer
Appended == ChainOut(root, Len(heap) + 1) \o xfs[heap[root].step].buffer

\* the values a scripted step function emits up to the Step call that
\* returns reduced are 1..EmittedByReduced
EmittedByReduced == ScriptEmits(xf.p, ReducedAt) - xf.p.fin

\* C35 as stated: once a Step call of the chain has returned reduced, the
\* terminal reducing function appends nothing more: every value in the
\* buffer or in a node's output was emitted up to that call.
C35_NothingAfterReduced ==
  (root # Nil /\ ReducedAt > 0) =>
    \A i \in DOMAIN Appended : Appended[i] <= EmittedByReduced

\* C35, amended: the terminal reducing function drops a value only when the
\* result it is handed with the value is reduced; a scripted step function
\* hands every value with an unreduced result, so every value it emitted,
\* the values completion emits after a reduced Step call included, was
\* appended, in emission order.
C35_AppendedUnlessHandedReduced ==
  root # Nil => Appended = xfs[heap[root].step].emitLog

\* a Step call returned reduced, completion emitted after it, and the value
\* is in the buffer
C35_AppendedAfterReduced ==
  /\ root # Nil
  /\ ReducedAt > 0
  /\ xfs[heap[root].step].completes = 1
  /\ \E i \in DOMAIN xfs[heap[root].step].buffer :
       xfs[heap[root].step].buffer[i] > EmittedByReduced

\* C36: with machine integers, every element of Range(start, end, step),
\* step not 0, lies between start and end (end excluded) and the elements
\* read in order are strictly increasing for step > 0, strictly decreasing
\* for step < 0: start + step never wraps around to a value that is judged
\* before end again.
C36_RangeStaysInside ==
  /\ \A i \in DOMAIN walked.acc :
       IF given.step > 0
       THEN given.start <= walked.acc[i] /\ walked.acc[i] < given.end
       ELSE given.end < walked.acc[i] /\ walked.acc[i] <= given.start
  /\ \A i \in 1..(Len(walked.acc) - 1) :
       IF given.step > 0 THEN walked.acc[i] < walked.acc[i + 1]
       ELSE walked.acc[i] > walked.acc[i + 1]

\* the repeat nodes allocated so far
RepeatNodes == {n \in 1..Len(heap) : heap[n].kind = "repeat"}

\* C37: Repeat(n, x) is finite for every count n, n <= 0 included: no node
\* of it is its own Next, and the walk from the head has reached nil once
\* it has read as many elements as the count (one, for a count below one).
C37_RepeatIsFinite ==
  given.gen = "repeat" =>
    /\ \A n \in RepeatNodes : repeatNext(World, n).r # n
    /\ Len(walked.acc) <= (IF given.len > 1 THEN given.len ELSE 1)
    /\ Len(walked.acc) = (IF given.len > 1 THEN given.len ELSE 1) => cur = Nil

\* the nodes that reference the buffer object of the chain of step id (the
\* one allocated at xfrm_seq.go line 27 and passed on at line 72)
Holders(id) == {n \in XfrmNodes : heap[n].step = id /\ heap[n].buffer}

\* the nodes that took their elements from the buffer object of that chain
HandedOver(id) == {n \in XfrmNodes : heap[n].step = id /\ heap[n].bufferedColl # Nil}

\* no two nodes reference one buffer object
BufferUnshared == \A id \in DOMAIN xfs : Cardinality(Holders(id)) <= 1

\* a buffer object that a node materialized is not used for another node
BufferNotReused == \A id \in DOMAIN xfs : Cardinality(HandedOver(id)) <= 1

\* what is in a buffer object will be materialized by a node that holds it
BufferNotLost ==
  \A id \in DOMAIN xfs :
    xfs[id].buffer # <<>> => \E n \in Holders(id) : ~Realized(heap[n])

\* C38: a buffer object belongs to one realization: no two nodes reference
\* the same one, the one a node materialized is not used again for its
\* child, and no emitted value is left in a buffer that no node will
\* materialize.
C38_BufferOwnedByOneCall == BufferUnshared /\ BufferNotReused /\ BufferNotLost

====
